---- MODULE Spec2Model ----
(***************************************************************************)
(* Clock OS firmware (src/src/main.cpp): the differential ring renderer,   *)
(* the three configuration menus, the persistent settings layout and the   *)
(* control loop, as one state machine.                                     *)
(***************************************************************************)
EXTENDS Integers, Sequences, FiniteSets, TLC

VARIABLES
    pc,                       \* where the control loop is: "loop", "selectMode", "timeDate", "styling", "settings"
    selValue,                 \* userSelectMode's local `value`
    clockFace,
    hours, minutes, seconds, years, months, dayOfMonth,
    hoursHand, previousHoursHand, previousHours, previousMinutes, previousSeconds,
    hoursMarkerColor, hoursColor, minutesColor, secondsColor,
    ledSegmentsSettings, ledSegmentsToggleSeconds,
    position, settingsChangedFlag,
    eeprom,                   \* EEPROM contents, by offset
    ring,                     \* what the ring peripheral shows: ring[r][p] is the color of LED p of ring r
    rtc,                      \* the DS1307 registers (BCD)
    segments,                 \* what the digit display shows: the page and the field it blanks
    ledSegmentsDisplay,       \* the page byte drawConfigurationLedSegments and drawNormalLedSegments go by
    blinkActive,              \* the blink phase of the selected field
    isButtonPressed,          \* the time/date menu has paused for the buttons now held
    cmds,                     \* the ring commands of the drawClockFace call of the last step (<<>> if none)
    before,                   \* the draw context (values, previous values, appearance) of that call
    written,                  \* the EEPROM offsets written by the last step, in order
    drew,                     \* TRUE iff the last step called drawClockFace
    lastOp,                   \* the handler the last step ran
    ticks, keys               \* what is left of the budget of RTC seconds and of the budget of
                              \* button presses that change something (Dec/Inc in a menu, face
                              \* selection and the factory reset chord in loop())

vars == <<pc, selValue, clockFace, hours, minutes, seconds, years, months, dayOfMonth,
          hoursHand, previousHoursHand, previousHours, previousMinutes, previousSeconds,
          hoursMarkerColor, hoursColor, minutesColor, secondsColor,
          ledSegmentsSettings, ledSegmentsToggleSeconds, position, settingsChangedFlag,
          eeprom, ring, rtc, segments, cmds, before, written, drew, lastOp, ticks, keys,
          ledSegmentsDisplay, blinkActive, isButtonPressed>>

(***************************************************************************)
(* Bounds of the model                                                     *)
(***************************************************************************)
\* seconds and presses explored with the renderer, when loading and with everything
RenderTicks == 2
RenderKeys == 1
LoadKeys == 1
StoreTicks == 1
StoreKeys == 1
BootKeys == 1
TimeKeys == 1
SettingsKeys == 2
StylingKeys == 3
MenuKeys == 1

(***************************************************************************)
(* Program constants                                                       *)
(***************************************************************************)
KEY_PRESSED_NONE == 0
KEY_PRESSED_1 == 1
KEY_PRESSED_2 == 2
KEY_PRESSED_3 == 4
KEY_PRESSED_1_2 == 3
KEY_PRESSED_1_3 == 5
KEY_PRESSED_2_3 == 6
KEY_PRESSED_1_2_3 == 7

SET_POSITION_NONE == 0
SET_POSITION_HOURS == 1
SET_POSITION_MINUTES == 2
SET_POSITION_SECONDS == 3
SET_POSITION_YEAR == 4
SET_POSITION_MONTH == 5
SET_POSITION_DAY == 6
SET_POSITION_MARKERS == 8
SET_POSITION_CLOCK_FACE == 16
SET_POSITION_TIME_DATE == 17
SET_POSITION_ALT_TIMER == 18
SET_POSITION_FLASH_COLON == 19

EEPROM_CLOCK_FACE_NUMBER == 0
EEPROM_DATE_TIME_AND_COLON == 1
EEPROM_ALTERNATE_COUNTER == 2
EEPROM_CLOCK_FACE_SETTINGS == 10
DEFAULT_CLOCK_FACE_LENGTH == 10
DEFAULT_FACTORY_CLOCK_FACES == 10

MARKER_HOUR_EVERY == 16
MARKER_HOUR_QUARTERS == 32
MARKER_HOUR_TWELTH == 64
MARKER_BIT_HOUR_EVERY == 4
MARKER_BIT_HOUR_QUARTERS == 5
MARKER_BIT_HOUR_TWELTH == 6

COLOR_HANDS == 16
COLOR_DOT == 32
COLOR_TRACE == 64
COLOR_BIT_HANDS == 4
COLOR_BIT_DOT == 5
COLOR_BIT_TRACE == 6

RING_NONE == 0
RING_SECONDS == 1
RING_MINUTES == 2
RING_MINUTES_SECONDS == 3
RING_HOURS == 4
RING_HOURS_SECONDS == 5
RING_HOURS_MINUTES == 6
RING_HOURS_MINUTES_SECONDS == 7

COLORS_START == 0
COLORS_END == 7
COLOR_BLANK == 0
COLOR_RED == 1
COLOR_GREEN == 2
COLOR_ORANGE == 3
COLOR_BLUE == 4
COLOR_PURPLE == 5
COLOR_CYAN == 6
COLOR_WHITE == 7

DISPLAY_COLONS_ON == 1
DISPLAY_COLONS_FLASH_EVERY_SECOND == 2
DISPLAY_NONE == 0
DISPLAY_TIME == 16
DISPLAY_DATE == 32
DISPLAY_TIME_AND_DATE == 48
DISPLAY_CONFIG == 64
DISPLAY_SETTINGS == 128
DISPLAY_RESET == 240

MODE_NORMAL == 0
MODE_SET_STYLING == 1
MODE_SET_SETTINGS == 2
MODE_SET_TIME_AND_DATE == 3

RingSize == 60

valueTimeDateMin == <<0, 0, 0, 0, 1, 1>>
valueTimeDateMax == <<23, 59, 59, 99, 12, 31>>
valueAltTimes == <<1, 2, 5, 10, 15, 30, 60>>

\* DEFAULT_FACTORY_COLORS[face][0..3] = (hoursMarkers, hours, minutes, seconds), here 1-based
DEFAULT_FACTORY_COLORS ==
    << <<COLOR_BLUE + MARKER_HOUR_EVERY, COLOR_CYAN + COLOR_HANDS, COLOR_GREEN + COLOR_HANDS, COLOR_RED + COLOR_HANDS>>,
       <<COLOR_PURPLE + MARKER_HOUR_QUARTERS, COLOR_CYAN + COLOR_TRACE, COLOR_GREEN + COLOR_HANDS, COLOR_RED + COLOR_DOT>>,
       <<COLOR_BLUE + MARKER_HOUR_EVERY, COLOR_BLANK + COLOR_DOT, COLOR_BLANK + COLOR_DOT, COLOR_RED + COLOR_TRACE>>,
       <<COLOR_RED + MARKER_HOUR_QUARTERS, COLOR_BLANK + COLOR_DOT, COLOR_BLANK + COLOR_DOT, COLOR_BLUE + COLOR_TRACE>>,
       <<COLOR_ORANGE + MARKER_HOUR_TWELTH, COLOR_BLANK + COLOR_DOT, COLOR_GREEN + COLOR_TRACE, COLOR_BLUE + COLOR_TRACE>>,
       <<COLOR_BLANK, COLOR_BLANK + COLOR_DOT, COLOR_BLANK + COLOR_DOT, COLOR_RED + COLOR_DOT>>,
       <<COLOR_BLANK, COLOR_BLUE + COLOR_DOT, COLOR_GREEN + COLOR_DOT, COLOR_RED + COLOR_DOT>>,
       <<COLOR_BLANK, COLOR_BLANK + COLOR_DOT, COLOR_BLANK + COLOR_DOT, COLOR_RED + COLOR_TRACE>>,
       <<COLOR_BLUE + MARKER_HOUR_EVERY, COLOR_CYAN + COLOR_TRACE, COLOR_GREEN + COLOR_TRACE, COLOR_RED + COLOR_TRACE>>,
       <<COLOR_BLANK, COLOR_BLANK + COLOR_TRACE, COLOR_GREEN + COLOR_TRACE, COLOR_RED + COLOR_TRACE>> >>

(***************************************************************************)
(* Byte arithmetic                                                         *)
(***************************************************************************)
RingBits == {RING_SECONDS, RING_MINUTES, RING_HOURS}
Positions == 0..(RingSize - 1)

LowNibble(b) == b % 16                    \* b & 0x0f
HighNibble(b) == (b \div 16) * 16         \* b & 0xf0
bitRead(b, n) == (b \div (2 ^ n)) % 2
RingIn(r, mask) == (mask \div r) % 2 = 1  \* ring bit r is set in mask
MaskAnd(a, b) ==                          \* a & b on ring masks
    (IF RingIn(1, a) /\ RingIn(1, b) THEN 1 ELSE 0)
  + (IF RingIn(2, a) /\ RingIn(2, b) THEN 2 ELSE 0)
  + (IF RingIn(4, a) /\ RingIn(4, b) THEN 4 ELSE 0)

decToBcd(val) == ((val \div 10) * 16 + (val % 10)) % 256
bcdToDec(val) == ((val \div 16) * 10 + (val % 16)) % 256

(***************************************************************************)
(* Ring peripheral: the two commands the renderer sends and their effect   *)
(***************************************************************************)
ledWrite(ringMask, number, color) == <<"W", ringMask, number, color>>
ledWriteAllInRingOff(ringMask) == <<"OFF", ringMask, 0, 0>>

DarkRing == [r \in RingBits |-> [p \in Positions |-> COLOR_BLANK]]

\* ring rg with LED p of ring r set to color, if r is in ringMask
SetLed(rg, ringMask, r, p, color) ==
    IF RingIn(r, ringMask) THEN [rg EXCEPT ![r][p] = color] ELSE rg

\* the ring after one command
ApplyCmd(rg, c) ==
    IF c[1] = "OFF"
    THEN [r \in RingBits |-> IF RingIn(r, c[2]) THEN [p \in Positions |-> COLOR_BLANK] ELSE rg[r]]
    ELSE IF c[3] \in Positions
         THEN SetLed(SetLed(SetLed(rg, c[2], RING_SECONDS, c[3], c[4]),
                            c[2], RING_MINUTES, c[3], c[4]),
                     c[2], RING_HOURS, c[3], c[4])
         ELSE rg

\* the ring after the commands cs[lo..hi], sent in order
RECURSIVE ApplyRange(_, _, _, _)
ApplyRange(rg, cs, lo, hi) ==
    IF lo > hi THEN rg
    ELSE IF lo = hi THEN ApplyCmd(rg, cs[lo])
    ELSE CHOOSE out \in {ApplyRange(half, cs, (lo + hi) \div 2 + 1, hi) :
                         half \in {ApplyRange(rg, cs, lo, (lo + hi) \div 2)}} : TRUE

ApplyCmds(rg, cs) == ApplyRange(rg, cs, 1, Len(cs))

\* ringAnimation(color) writes every position of all three rings
ringAnimation(color) == [r \in RingBits |-> [p \in Positions |-> color]]

(***************************************************************************)
(* Differential ring renderer.  A draw context t carries the globals the   *)
(* renderer reads: hoursHand, minutes, seconds, their previous values and  *)
(* the four appearance bytes (and whether the ring was dark before).  Each *)
(* phase yields its ring commands in the order the code sends them.        *)
(***************************************************************************)
\* for (r = from; r > downTo; r--) ledWrite(ringMask, r, COLOR_BLANK)
ClearDown(ringMask, from, downTo) ==
    IF from > downTo
    THEN [i \in 1..(from - downTo) |-> ledWrite(ringMask, from - i + 1, COLOR_BLANK)]
    ELSE <<>>

\* for (r = from; r <= upTo; r++) ledWrite(ringMask, r, color)
FillUp(ringMask, from, upTo, color) ==
    IF from <= upTo
    THEN [i \in 1..(upTo - from + 1) |-> ledWrite(ringMask, from + i - 1, color)]
    ELSE <<>>

\* a clear phase without the special case of a Trace that moved to 0
clearHandDownOnly(handColor, value, previous, ownRing, handsRing) ==
    IF LowNibble(handColor) # COLOR_BLANK /\ value # previous
    THEN IF bitRead(handColor, COLOR_BIT_TRACE) = 1
         THEN ClearDown(ownRing, previous, value)
         ELSE IF bitRead(handColor, COLOR_BIT_DOT) = 1
              THEN <<ledWrite(ownRing, previous, COLOR_BLANK)>>
              ELSE IF bitRead(handColor, COLOR_BIT_HANDS) = 1
                   THEN <<ledWrite(handsRing, previous, COLOR_BLANK)>>
                   ELSE <<>>
    ELSE <<>>

\* one of the three blocks of clearHands: the hand's byte, its value, its previous
\* value, its own ring and the rings a Hands-style hand of this kind covers
clearHand(handColor, value, previous, ownRing, handsRing) ==
    IF LowNibble(handColor) # COLOR_BLANK /\ value # previous
    THEN IF bitRead(handColor, COLOR_BIT_TRACE) = 1
         THEN IF value = 0
              THEN <<ledWriteAllInRingOff(ownRing)>>
              ELSE ClearDown(ownRing, previous, value)
         ELSE IF bitRead(handColor, COLOR_BIT_DOT) = 1
              THEN <<ledWrite(ownRing, previous, COLOR_BLANK)>>
              ELSE IF bitRead(handColor, COLOR_BIT_HANDS) = 1
                   THEN <<ledWrite(handsRing, previous, COLOR_BLANK)>>
                   ELSE <<>>
    ELSE <<>>

clearHands(t) ==
    clearHand(t.hoursColor, t.hoursHand, t.previousHoursHand, RING_HOURS, RING_HOURS_MINUTES)
    \o clearHand(t.minutesColor, t.minutes, t.previousMinutes, RING_MINUTES, RING_HOURS_MINUTES_SECONDS)
    \o clearHand(t.secondsColor, t.seconds, t.previousSeconds, RING_SECONDS, RING_HOURS_MINUTES_SECONDS)

\* the Trace fill shared by the three blocks of drawHands
traceFill(t, handColor, value, previous, ownRing) ==
    IF value # previous /\ (value > 0 \/ LowNibble(t.hoursMarkerColor) = COLOR_BLANK)
    THEN FillUp(ownRing, IF value <= 1 THEN value ELSE previous, value, LowNibble(handColor))
    ELSE <<>>

\* "also redraw ... if <other> hand has been there previously"
traceRedraw(handColor, value, ownRing, otherColor, otherValue, otherPrevious) ==
    IF LowNibble(otherColor) # COLOR_BLANK
       /\ bitRead(otherColor, COLOR_BIT_HANDS) = 1
       /\ otherValue # otherPrevious /\ value >= otherPrevious /\ otherPrevious > 0
    THEN <<ledWrite(ownRing, otherPrevious, LowNibble(handColor))>>
    ELSE <<>>

drawMinutes(t) ==
    IF LowNibble(t.minutesColor) # COLOR_BLANK
    THEN IF bitRead(t.minutesColor, COLOR_BIT_TRACE) = 1
         THEN traceFill(t, t.minutesColor, t.minutes, t.previousMinutes, RING_MINUTES)
              \o traceRedraw(t.minutesColor, t.minutes, RING_MINUTES,
                             t.secondsColor, t.seconds, t.previousSeconds)
              \o traceRedraw(t.minutesColor, t.minutes, RING_MINUTES,
                             t.hoursColor, t.hoursHand, t.previousHoursHand)
         ELSE IF t.minutes # t.previousMinutes \/ t.minutes = t.previousSeconds
                 \/ t.minutes = t.previousHoursHand
              THEN IF bitRead(t.minutesColor, COLOR_BIT_DOT) = 1
                   THEN <<ledWrite(RING_MINUTES, t.minutes, LowNibble(t.minutesColor))>>
                   ELSE IF bitRead(t.minutesColor, COLOR_BIT_HANDS) = 1
                        THEN <<ledWrite(RING_HOURS_MINUTES_SECONDS, t.minutes, LowNibble(t.minutesColor))>>
                        ELSE <<>>
              ELSE <<>>
    ELSE <<>>

drawHours(t) ==
    IF LowNibble(t.hoursColor) # COLOR_BLANK
    THEN IF bitRead(t.hoursColor, COLOR_BIT_TRACE) = 1
         THEN traceFill(t, t.hoursColor, t.hoursHand, t.previousHoursHand, RING_HOURS)
              \o traceRedraw(t.hoursColor, t.hoursHand, RING_HOURS,
                             t.minutesColor, t.minutes, t.previousMinutes)
              \o traceRedraw(t.hoursColor, t.hoursHand, RING_HOURS,
                             t.secondsColor, t.seconds, t.previousSeconds)
         ELSE IF t.hoursHand # t.previousHoursHand \/ t.hoursHand = t.previousMinutes
                 \/ t.hoursHand = t.previousSeconds
              THEN IF bitRead(t.hoursColor, COLOR_BIT_DOT) = 1
                   THEN <<ledWrite(RING_HOURS, t.hoursHand, LowNibble(t.hoursColor))>>
                   ELSE IF bitRead(t.hoursColor, COLOR_BIT_HANDS) = 1
                        THEN <<ledWrite(RING_HOURS_MINUTES, t.hoursHand, LowNibble(t.hoursColor))>>
                        ELSE <<>>
              ELSE <<>>
    ELSE <<>>

drawSeconds(t) ==
    IF LowNibble(t.secondsColor) # COLOR_BLANK
    THEN IF bitRead(t.secondsColor, COLOR_BIT_TRACE) = 1
         THEN traceFill(t, t.secondsColor, t.seconds, t.previousSeconds, RING_SECONDS)
              \o traceRedraw(t.secondsColor, t.seconds, RING_SECONDS,
                             t.minutesColor, t.minutes, t.previousMinutes)
         ELSE IF t.seconds # t.previousSeconds \/ t.seconds = t.previousMinutes
              THEN IF bitRead(t.secondsColor, COLOR_BIT_DOT) = 1
                   THEN <<ledWrite(RING_SECONDS, t.seconds, LowNibble(t.secondsColor))>>
                   ELSE IF bitRead(t.secondsColor, COLOR_BIT_HANDS) = 1
                        THEN <<ledWrite(RING_HOURS_MINUTES_SECONDS, t.seconds, LowNibble(t.secondsColor))>>
                        ELSE <<>>
              ELSE <<>>
    ELSE <<>>

\* the draw order of the code: minutes, hours, seconds
drawHands(t) == drawMinutes(t) \o drawHours(t) \o drawSeconds(t)

\* a marker phase in which every Hands-style hand covers the whole marker
markerUnderAnyHands(markers, handColor, value, loopMarker, keep, handsKeep) ==
    IF LowNibble(handColor) # COLOR_BLANK /\ value = loopMarker
    THEN IF bitRead(handColor, COLOR_BIT_TRACE) = 1
         THEN IF value > 0 THEN MaskAnd(markers, keep) ELSE markers
         ELSE IF bitRead(handColor, COLOR_BIT_DOT) = 1
              THEN MaskAnd(markers, keep)
              ELSE IF bitRead(handColor, COLOR_BIT_HANDS) = 1
                   THEN RING_NONE
                   ELSE markers
    ELSE markers

\* what a hand at a marker position leaves of the marker's rings: traceKeep/dotKeep
\* are the masks the code ANDs in, handsKeep the mask a Hands-style hand leaves
markerUnderHand(markers, handColor, value, loopMarker, keep, handsKeep) ==
    IF LowNibble(handColor) # COLOR_BLANK /\ value = loopMarker
    THEN IF bitRead(handColor, COLOR_BIT_TRACE) = 1
         THEN IF value > 0 THEN MaskAnd(markers, keep) ELSE markers
         ELSE IF bitRead(handColor, COLOR_BIT_DOT) = 1
              THEN MaskAnd(markers, keep)
              ELSE IF bitRead(handColor, COLOR_BIT_HANDS) = 1
                   THEN MaskAnd(markers, handsKeep)
                   ELSE markers
    ELSE markers

\* the ring mask drawHourMarkers ends up with at loopMarker
markersAt(t, loopMarker) ==
    LET m0 == IF loopMarker = 0 THEN RING_HOURS_MINUTES_SECONDS
              ELSE IF loopMarker \in {15, 30, 45} THEN RING_MINUTES_SECONDS
              ELSE RING_SECONDS
        m1 == markerUnderHand(m0, t.secondsColor, t.seconds, loopMarker, RING_HOURS_MINUTES, RING_NONE)
        m2 == markerUnderHand(m1, t.minutesColor, t.minutes, loopMarker, RING_HOURS_SECONDS, RING_NONE)
    IN markerUnderHand(m2, t.hoursColor, t.hoursHand, loopMarker, RING_MINUTES_SECONDS, RING_SECONDS)

RECURSIVE drawHourMarkersFrom(_, _, _, _)
drawHourMarkersFrom(t, loopMarker, steps, drawColor) ==
    IF loopMarker >= RingSize THEN <<>>
    ELSE (IF markersAt(t, loopMarker) # RING_NONE
          THEN <<ledWrite(markersAt(t, loopMarker), loopMarker, drawColor)>>
          ELSE <<>>)
         \o drawHourMarkersFrom(t, loopMarker + steps, steps, drawColor)

drawHourMarkers(t, steps, drawColor) == drawHourMarkersFrom(t, 0, steps, drawColor)

drawMarkers(t) ==
    IF LowNibble(t.hoursMarkerColor) # COLOR_BLANK
    THEN IF bitRead(t.hoursMarkerColor, MARKER_BIT_HOUR_EVERY) = 1
         THEN drawHourMarkers(t, 5, LowNibble(t.hoursMarkerColor))
         ELSE IF bitRead(t.hoursMarkerColor, MARKER_BIT_HOUR_QUARTERS) = 1
              THEN drawHourMarkers(t, 15, LowNibble(t.hoursMarkerColor))
              ELSE IF bitRead(t.hoursMarkerColor, MARKER_BIT_HOUR_TWELTH) = 1
                   THEN drawHourMarkers(t, 60, LowNibble(t.hoursMarkerColor))
                   ELSE <<>>
    ELSE <<>>

\* hoursHand without the reduction of the hours to the twelve-hour dial
HoursHandOfDay(h, m) == (h * 5 + m \div 12) % 256

\* hoursHand as drawClockFace computes it (a byte)
HoursHandOf(h, m) == ((h % 12) * 5 + m \div 12) % 256

\* the command stream of one drawClockFace call
drawClockFaceCmds(t) == clearHands(t) \o drawHands(t) \o drawMarkers(t)

(***************************************************************************)
(* drawClockFace, resetPreviousValues and normalMode on the record R of    *)
(* the time and render globals (hours .. previousSeconds, ring) and the    *)
(* appearance record app (the four appearance bytes).                      *)
(***************************************************************************)
Ctx(R, app) ==
    [hoursHand |-> R.hoursHand, minutes |-> R.minutes, seconds |-> R.seconds,
     previousHoursHand |-> R.previousHoursHand, previousMinutes |-> R.previousMinutes,
     previousSeconds |-> R.previousSeconds,
     hoursMarkerColor |-> app.hoursMarkerColor, hoursColor |-> app.hoursColor,
     minutesColor |-> app.minutesColor, secondsColor |-> app.secondsColor,
     dark |-> R.ring = DarkRing]

NoCtx ==
    [hoursHand |-> 0, minutes |-> 0, seconds |-> 0,
     previousHoursHand |-> 0, previousMinutes |-> 0, previousSeconds |-> 0,
     hoursMarkerColor |-> 0, hoursColor |-> 0, minutesColor |-> 0, secondsColor |-> 0,
     dark |-> TRUE]

NoDraw == NoCtx

drawClockFace(R, app) ==
    LET hh == HoursHandOf(R.hours, R.minutes)
        t  == Ctx([R EXCEPT !.hoursHand = hh], app)
    IN CHOOSE out \in
        {[R EXCEPT !.hoursHand = hh,
                   !.ring = ApplyCmds(R.ring, cs),
                   !.cmds = cs, !.before = t, !.drew = TRUE,
                   !.previousHoursHand = hh, !.previousHours = R.hours,
                   !.previousMinutes = R.minutes, !.previousSeconds = R.seconds] :
         cs \in {drawClockFaceCmds(t)}} : TRUE

\* a return from a menu that leaves the previous values as they are
keepPreviousValues(R) == R

resetPreviousValues(R) ==
    [R EXCEPT !.previousHoursHand = 0, !.previousHours = 0,
              !.previousMinutes = 0, !.previousSeconds = 0]

ledWriteAllOff(R) == [R EXCEPT !.ring = DarkRing]

\* getDateDs1307: the seven registers, BCD, with the control bits masked off
getDateDs1307(R, clock) ==
    [R EXCEPT !.seconds = bcdToDec(clock.seconds % 128),
              !.minutes = bcdToDec(clock.minutes),
              !.hours = bcdToDec(clock.hours % 64),
              !.dayOfMonth = bcdToDec(clock.dayOfMonth),
              !.months = bcdToDec(clock.months),
              !.years = bcdToDec(clock.years)]

\* setDateDs1307(seconds, minutes, hours, dayOfWeek, dayOfMonth, months, years)
setDateDs1307(s, m, h, d, mo, y) ==
    [seconds |-> decToBcd(s), minutes |-> decToBcd(m), hours |-> decToBcd(h),
     dayOfMonth |-> decToBcd(d), months |-> decToBcd(mo), years |-> decToBcd(y)]

\* the digit display: cleared, showing a text, a menu field or the time or date
\* the digit display: the page it shows and the field position it shows as
\* DISP_CHAR_SELECTED (0 when every field of the page shows its value)
Shown(page, alternate) == [shows |-> page, blank |-> alternate]

ledSegmentsClearAll(R) == [R EXCEPT !.segments = Shown("clear", 0)]

ledSegmentsDisplayChars(R) == [R EXCEPT !.segments = Shown("chars", 0)]

\* the field positions a page of ledSegmentsDisplayTime, ledSegmentsDisplayDate,
\* ledSegmentsDisplayConfig and ledSegmentsDisplaySettings tests positionAlternate for
PageFields(page, pos) ==
    IF page = "time" THEN {SET_POSITION_HOURS, SET_POSITION_MINUTES, SET_POSITION_SECONDS}
    ELSE IF page = "date" THEN {SET_POSITION_YEAR, SET_POSITION_MONTH, SET_POSITION_DAY}
    ELSE IF page = "config"
    THEN (IF pos = SET_POSITION_MARKERS THEN {SET_POSITION_MARKERS}
          ELSE {SET_POSITION_HOURS, SET_POSITION_MINUTES, SET_POSITION_SECONDS})
    ELSE IF page = "settings"
    THEN (IF pos = SET_POSITION_CLOCK_FACE THEN {SET_POSITION_CLOCK_FACE}
          ELSE {SET_POSITION_TIME_DATE, SET_POSITION_ALT_TIMER, SET_POSITION_FLASH_COLON})
    ELSE {}

\* (ledSegmentsDisplay & bit) == bit
DisplayHas(d, bit) == (d \div bit) % 2 = 1

\* drawConfigurationLedSegments(positionAlternate) with the global position pos
drawConfigurationLedSegments(R, pos, positionAlternate) ==
    LET page == IF DisplayHas(R.ledSegmentsDisplay, DISPLAY_TIME) THEN "time"
                ELSE IF DisplayHas(R.ledSegmentsDisplay, DISPLAY_DATE) THEN "date"
                ELSE IF DisplayHas(R.ledSegmentsDisplay, DISPLAY_CONFIG) THEN "config"
                ELSE IF DisplayHas(R.ledSegmentsDisplay, DISPLAY_SETTINGS) THEN "settings"
                ELSE "clear"
    IN [R EXCEPT !.segments =
            Shown(page, IF positionAlternate \in PageFields(page, pos) THEN positionAlternate ELSE 0)]

\* drawNormalLedSegments: time, date or both in turn; nothing when neither
\* bit of the display mode is set.  A period of 0 is never loaded or selected.
drawNormalLedSegments(R, S) ==
    LET toggle == S.ledSegmentsToggleSeconds
        ledSegmentsCounter == IF toggle = 0 THEN 0 ELSE R.seconds % toggle
        phase == IF toggle = 0 THEN 0 ELSE (R.seconds \div toggle) % 2
        d == IF (S.ledSegmentsSettings \div 16) % 4 = 3
             THEN (IF ledSegmentsCounter = 0 \/ (R.ledSegmentsDisplay \div 16) % 4 = 0
                   THEN (IF phase = 0 THEN DISPLAY_TIME ELSE DISPLAY_DATE)
                   ELSE R.ledSegmentsDisplay)
             ELSE ((S.ledSegmentsSettings \div 16) % 4) * 16
    IN [R EXCEPT !.ledSegmentsDisplay = d,
                 !.segments = Shown(IF DisplayHas(d, DISPLAY_TIME) THEN "time"
                                    ELSE IF DisplayHas(d, DISPLAY_DATE) THEN "date"
                                    ELSE "clear", 0)]

\* initUserSelect, as far as the model holds its globals
initUserSelect(R) == [R EXCEPT !.blinkActive = FALSE, !.isButtonPressed = FALSE]

\* a redraw that keeps the blink phase whatever the iteration read
redrawKeepingPhase(R, pos, blinkUpdate, fired) ==
    LET toggled == fired /\ blinkUpdate = 0
        active == IF toggled THEN ~R.blinkActive ELSE R.blinkActive
    IN IF ~fired /\ blinkUpdate = 0 THEN R
       ELSE drawConfigurationLedSegments([R EXCEPT !.blinkActive = active], pos,
                                         IF active THEN pos ELSE 0)

\* updateBlinkTimer and the redraw at the end of a menu iteration: blinkUpdate
\* is 2 after button 1 or 3, 3 after button 2, 1 when the blink timer fired in
\* an iteration without any of them (which toggles blinkActive), else 0
redrawConfiguration(R, pos, blinkUpdate, fired) ==
    LET toggled == fired /\ blinkUpdate = 0
        update == IF toggled THEN 1 ELSE blinkUpdate
        active == IF toggled THEN ~R.blinkActive ELSE R.blinkActive
    IN IF update = 0 THEN R
       ELSE IF update < 2 /\ active
       THEN drawConfigurationLedSegments([R EXCEPT !.blinkActive = active], pos, pos)
       ELSE drawConfigurationLedSegments([R EXCEPT !.blinkActive = FALSE], pos, 0)

normalMode(R, app, clock) ==
    LET R1 == getDateDs1307(R, clock)
    IN IF R1.seconds # R1.previousSeconds THEN drawClockFace(R1, app) ELSE R1

\* drawDisplayConfiguration: the fixed demo time 22:10:23, forced redraw
drawDisplayConfiguration(R, app) ==
    drawClockFace(resetPreviousValues([R EXCEPT !.hours = 22, !.minutes = 10, !.seconds = 23]), app)

(***************************************************************************)
(* Persistent settings layout                                              *)
(***************************************************************************)
\* the offsets the program addresses: the three settings bytes and the face
\* records up to the largest face index loadSettingsOrFactoryDefaults lets through
EepromOffsets ==
    0..(EEPROM_CLOCK_FACE_SETTINGS + (DEFAULT_FACTORY_CLOCK_FACES + 1) * DEFAULT_CLOCK_FACE_LENGTH - 1)

\* the records packed without gaps
FaceOffsetPacked(face, j) == EEPROM_CLOCK_FACE_SETTINGS + face * 4 + j

FaceOffset(face, j) == EEPROM_CLOCK_FACE_SETTINGS + face * DEFAULT_CLOCK_FACE_LENGTH + j

\* a read of DEFAULT_FACTORY_COLORS past its last row yields whatever follows it in memory
UndefinedBytes == {0, 65, 255}

MakeApp(mk, h, m, s) ==
    [hoursMarkerColor |-> mk, hoursColor |-> h, minutesColor |-> m, secondsColor |-> s]

\* a load that takes the three settings bytes as they are stored
loadSettingsAsStored(e) ==
    [clockFace |-> e[EEPROM_CLOCK_FACE_NUMBER],
     ledSegmentsSettings |-> e[EEPROM_DATE_TIME_AND_COLON],
     ledSegmentsToggleSeconds |-> e[EEPROM_ALTERNATE_COUNTER]]

loadSettingsOrFactoryDefaults(e) ==
    [clockFace |-> IF e[EEPROM_CLOCK_FACE_NUMBER] > DEFAULT_FACTORY_CLOCK_FACES
                   THEN 0 ELSE e[EEPROM_CLOCK_FACE_NUMBER],
     ledSegmentsSettings |-> e[EEPROM_DATE_TIME_AND_COLON],
     ledSegmentsToggleSeconds |-> IF e[EEPROM_ALTERNATE_COUNTER] = 0
                                  THEN 5 ELSE e[EEPROM_ALTERNATE_COUNTER]]

\* a load without the factory fallback
loadFaceSettingsAsStored(e, face) ==
    {MakeApp(e[EEPROM_CLOCK_FACE_SETTINGS + face * DEFAULT_CLOCK_FACE_LENGTH],
             e[EEPROM_CLOCK_FACE_SETTINGS + face * DEFAULT_CLOCK_FACE_LENGTH + 1],
             e[EEPROM_CLOCK_FACE_SETTINGS + face * DEFAULT_CLOCK_FACE_LENGTH + 2],
             e[EEPROM_CLOCK_FACE_SETTINGS + face * DEFAULT_CLOCK_FACE_LENGTH + 3])}

\* a load whose fallback takes the row after the face's own
loadFaceSettingsOrNextRow(e, face) ==
    LET row == DEFAULT_FACTORY_COLORS[((face + 1) % DEFAULT_FACTORY_CLOCK_FACES) + 1]
        a == e[EEPROM_CLOCK_FACE_SETTINGS + face * DEFAULT_CLOCK_FACE_LENGTH]
        b == e[EEPROM_CLOCK_FACE_SETTINGS + face * DEFAULT_CLOCK_FACE_LENGTH + 1]
        c == e[EEPROM_CLOCK_FACE_SETTINGS + face * DEFAULT_CLOCK_FACE_LENGTH + 2]
        d == e[EEPROM_CLOCK_FACE_SETTINGS + face * DEFAULT_CLOCK_FACE_LENGTH + 3]
    IN IF a = 0 /\ b = 0 /\ c = 0 /\ d = 0
       THEN {MakeApp(row[1], row[2], row[3], row[4])}
       ELSE {MakeApp(a, b, c, d)}

\* the set of appearance records the load can yield (one, unless the factory
\* table is read out of bounds)
loadFaceSettingsOrFactoryDefaults(e, face) ==
    LET mk == e[FaceOffset(face, 0)]
        h  == e[FaceOffset(face, 1)]
        m  == e[FaceOffset(face, 2)]
        s  == e[FaceOffset(face, 3)]
    IN IF mk = 0 /\ h = 0 /\ m = 0 /\ s = 0
       THEN IF face < DEFAULT_FACTORY_CLOCK_FACES
            THEN {MakeApp(DEFAULT_FACTORY_COLORS[face + 1][1], DEFAULT_FACTORY_COLORS[face + 1][2],
                          DEFAULT_FACTORY_COLORS[face + 1][3], DEFAULT_FACTORY_COLORS[face + 1][4])}
            ELSE {MakeApp(a, b, c, d) : a \in UndefinedBytes, b \in UndefinedBytes,
                                        c \in UndefinedBytes, d \in UndefinedBytes}
       ELSE {MakeApp(mk, h, m, s)}

\* EEPROM.write of the four appearance bytes at the record of face
writeFaceRecord(e, face, app) ==
    [e EXCEPT ![FaceOffset(face, 0)] = app.hoursMarkerColor,
              ![FaceOffset(face, 1)] = app.hoursColor,
              ![FaceOffset(face, 2)] = app.minutesColor,
              ![FaceOffset(face, 3)] = app.secondsColor]

FaceRecordOffsets(face) == [j \in 1..4 |-> FaceOffset(face, j - 1)]

writeSettings(e, face, settings, toggle) ==
    [e EXCEPT ![EEPROM_CLOCK_FACE_NUMBER] = face,
              ![EEPROM_DATE_TIME_AND_COLON] = settings,
              ![EEPROM_ALTERNATE_COUNTER] = toggle]

SettingsOffsets == <<EEPROM_CLOCK_FACE_NUMBER, EEPROM_DATE_TIME_AND_COLON, EEPROM_ALTERNATE_COUNTER>>

\* a factory write of the three settings bytes that leaves the face records
writeFactorySettingsOnly(e) ==
    writeSettings(e, 0, DISPLAY_TIME_AND_DATE + DISPLAY_COLONS_FLASH_EVERY_SECOND, 5)

writeFactorySettingsToEeprom(e) ==
    [o \in EepromOffsets |->
        IF o = EEPROM_CLOCK_FACE_NUMBER THEN 0
        ELSE IF o = EEPROM_DATE_TIME_AND_COLON THEN DISPLAY_TIME_AND_DATE + DISPLAY_COLONS_FLASH_EVERY_SECOND
        ELSE IF o = EEPROM_ALTERNATE_COUNTER THEN 5
        ELSE IF \E r \in 0..(DEFAULT_FACTORY_CLOCK_FACES - 1), j \in 0..3 : o = FaceOffset(r, j)
             THEN LET rj == CHOOSE q \in (0..(DEFAULT_FACTORY_CLOCK_FACES - 1)) \X (0..3) :
                                    o = FaceOffset(q[1], q[2])
                  IN DEFAULT_FACTORY_COLORS[rj[1] + 1][rj[2] + 1]
             ELSE e[o]]

\* the offsets writeFactorySettingsToEeprom writes, in order
FactoryOffsets ==
    SettingsOffsets \o [i \in 1..(4 * DEFAULT_FACTORY_CLOCK_FACES) |-> FaceOffset((i - 1) \div 4, (i - 1) % 4)]

(***************************************************************************)
(* Field access of the three menus                                         *)
(***************************************************************************)
ToInt8(b) == IF b > 127 THEN b - 256 ELSE b

getValueByPosition(R, pos) ==
    IF pos = SET_POSITION_HOURS THEN R.hours
    ELSE IF pos = SET_POSITION_MINUTES THEN R.minutes
    ELSE IF pos = SET_POSITION_SECONDS THEN R.seconds
    ELSE IF pos = SET_POSITION_YEAR THEN R.years
    ELSE IF pos = SET_POSITION_MONTH THEN R.months
    ELSE IF pos = SET_POSITION_DAY THEN R.dayOfMonth
    ELSE 0

setValueByPosition(R, pos, value) ==
    IF pos = SET_POSITION_HOURS THEN [R EXCEPT !.hours = value]
    ELSE IF pos = SET_POSITION_MINUTES THEN [R EXCEPT !.minutes = value]
    ELSE IF pos = SET_POSITION_SECONDS THEN [R EXCEPT !.seconds = value]
    ELSE IF pos = SET_POSITION_YEAR THEN [R EXCEPT !.years = value]
    ELSE IF pos = SET_POSITION_MONTH THEN [R EXCEPT !.months = value]
    ELSE IF pos = SET_POSITION_DAY THEN [R EXCEPT !.dayOfMonth = value]
    ELSE R

\* the month lengths without the leap-year rule
getDaysMaxWithoutLeapYear(R) ==
    IF R.months \in {4, 6, 9, 11} THEN 30
    ELSE IF R.months = 2 THEN 28
    ELSE 31

getDaysMaxBasedOnMonthAndLeapYear(R) ==
    IF R.months \in {4, 6, 9, 11} THEN 30
    ELSE IF R.months = 2 THEN (IF R.years % 4 = 0 THEN 29 ELSE 28)
    ELSE 31

\* a decrement that stops at the minimum of the field
timeDateDecToMin(R, pos) ==
    LET value == ToInt8((ToInt8(getValueByPosition(R, pos)) - 1) % 256)
    IN setValueByPosition(R, pos, (IF value < valueTimeDateMin[pos]
                                   THEN valueTimeDateMin[pos] ELSE value) % 256)

\* userSetTimeAndDate, button 1: the selected field one down, wrapping
timeDateDec(R, pos) ==
    LET value == ToInt8((ToInt8(getValueByPosition(R, pos)) - 1) % 256)
        wrapped == IF value < valueTimeDateMin[pos]
                   THEN IF pos = SET_POSITION_DAY
                        THEN getDaysMaxBasedOnMonthAndLeapYear(R)
                        ELSE valueTimeDateMax[pos]
                   ELSE value
    IN setValueByPosition(R, pos, wrapped % 256)

\* userSetTimeAndDate, button 3: the selected field one up, wrapping
timeDateInc(R, pos) ==
    LET value == ToInt8((ToInt8(getValueByPosition(R, pos)) + 1) % 256)
        wrapped == IF pos = SET_POSITION_DAY
                   THEN IF value > getDaysMaxBasedOnMonthAndLeapYear(R)
                        THEN valueTimeDateMin[pos] ELSE value
                   ELSE IF value > valueTimeDateMax[pos]
                        THEN valueTimeDateMin[pos] ELSE value
    IN setValueByPosition(R, pos, wrapped % 256)

getOptionsByPosition(app, pos) ==
    IF pos = SET_POSITION_HOURS THEN HighNibble(app.hoursColor)
    ELSE IF pos = SET_POSITION_MINUTES THEN HighNibble(app.minutesColor)
    ELSE IF pos = SET_POSITION_SECONDS THEN HighNibble(app.secondsColor)
    ELSE IF pos = SET_POSITION_MARKERS THEN HighNibble(app.hoursMarkerColor)
    ELSE 0

\* a style write that replaces the whole byte and so drops the color
setOptionsWholeByte(app, pos, value) ==
    IF pos = SET_POSITION_HOURS THEN [app EXCEPT !.hoursColor = HighNibble(value)]
    ELSE IF pos = SET_POSITION_MINUTES THEN [app EXCEPT !.minutesColor = HighNibble(value)]
    ELSE IF pos = SET_POSITION_SECONDS THEN [app EXCEPT !.secondsColor = HighNibble(value)]
    ELSE IF pos = SET_POSITION_MARKERS THEN [app EXCEPT !.hoursMarkerColor = HighNibble(value)]
    ELSE app

setOptionsByPosition(app, pos, value) ==
    IF pos = SET_POSITION_HOURS
    THEN [app EXCEPT !.hoursColor = LowNibble(app.hoursColor) + HighNibble(value)]
    ELSE IF pos = SET_POSITION_MINUTES
    THEN [app EXCEPT !.minutesColor = LowNibble(app.minutesColor) + HighNibble(value)]
    ELSE IF pos = SET_POSITION_SECONDS
    THEN [app EXCEPT !.secondsColor = LowNibble(app.secondsColor) + HighNibble(value)]
    ELSE IF pos = SET_POSITION_MARKERS
    THEN [app EXCEPT !.hoursMarkerColor = LowNibble(app.hoursMarkerColor) + HighNibble(value)]
    ELSE app

getColorByPosition(app, pos) ==
    IF pos = SET_POSITION_HOURS THEN LowNibble(app.hoursColor)
    ELSE IF pos = SET_POSITION_MINUTES THEN LowNibble(app.minutesColor)
    ELSE IF pos = SET_POSITION_SECONDS THEN LowNibble(app.secondsColor)
    ELSE IF pos = SET_POSITION_MARKERS THEN LowNibble(app.hoursMarkerColor)
    ELSE 0

setColorByPosition(app, pos, value) ==
    IF pos = SET_POSITION_HOURS
    THEN [app EXCEPT !.hoursColor = HighNibble(app.hoursColor) + LowNibble(value)]
    ELSE IF pos = SET_POSITION_MINUTES
    THEN [app EXCEPT !.minutesColor = HighNibble(app.minutesColor) + LowNibble(value)]
    ELSE IF pos = SET_POSITION_SECONDS
    THEN [app EXCEPT !.secondsColor = HighNibble(app.secondsColor) + LowNibble(value)]
    ELSE IF pos = SET_POSITION_MARKERS
    THEN [app EXCEPT !.hoursMarkerColor = HighNibble(app.hoursMarkerColor) + LowNibble(value)]
    ELSE app

\* a style step that goes back from Trace to Hands and from EveryQuarter to TwelveOnly
nextStyleOfTwo(app, pos) ==
    LET value == getOptionsByPosition(app, pos)
    IN IF pos = SET_POSITION_MARKERS
       THEN IF value = MARKER_HOUR_TWELTH THEN MARKER_HOUR_QUARTERS ELSE MARKER_HOUR_TWELTH
       ELSE IF value = COLOR_HANDS THEN COLOR_TRACE ELSE COLOR_HANDS

\* userSetFaceColorAndStyle, button 1: the next style (or marker density) of the field
nextStyle(app, pos) ==
    LET value == getOptionsByPosition(app, pos)
    IN IF pos = SET_POSITION_MARKERS
       THEN IF value = MARKER_HOUR_TWELTH THEN MARKER_HOUR_QUARTERS
            ELSE IF value = MARKER_HOUR_QUARTERS THEN MARKER_HOUR_EVERY
            ELSE MARKER_HOUR_TWELTH
       ELSE IF value = COLOR_HANDS THEN COLOR_TRACE
            ELSE IF value = COLOR_TRACE THEN COLOR_DOT
            ELSE COLOR_HANDS

\* a color step that stays at the last color
nextColorOrLast(app, pos) ==
    LET value == getColorByPosition(app, pos) + 1
    IN IF value > COLORS_END THEN COLORS_END ELSE value

\* userSetFaceColorAndStyle, button 3: the next color of the field
nextColor(app, pos) ==
    LET value == getColorByPosition(app, pos) + 1
    IN IF value > COLORS_END THEN COLORS_START ELSE value

\* the settings record S: clockFace, ledSegmentsSettings, ledSegmentsToggleSeconds
getSettingByPosition(S, pos) ==
    IF pos = SET_POSITION_CLOCK_FACE THEN S.clockFace
    ELSE IF pos = SET_POSITION_TIME_DATE THEN HighNibble(S.ledSegmentsSettings)
    ELSE IF pos = SET_POSITION_ALT_TIMER THEN S.ledSegmentsToggleSeconds
    ELSE IF pos = SET_POSITION_FLASH_COLON THEN LowNibble(S.ledSegmentsSettings)
    ELSE 0

\* the display-mode branch takes its low nibble from minutesColor, as the code does
setSettingByPosition(S, app, pos, value) ==
    IF pos = SET_POSITION_CLOCK_FACE THEN [S EXCEPT !.clockFace = value]
    ELSE IF pos = SET_POSITION_TIME_DATE
    THEN [S EXCEPT !.ledSegmentsSettings = LowNibble(app.minutesColor) + HighNibble(value)]
    ELSE IF pos = SET_POSITION_ALT_TIMER THEN [S EXCEPT !.ledSegmentsToggleSeconds = value]
    ELSE IF pos = SET_POSITION_FLASH_COLON
    THEN [S EXCEPT !.ledSegmentsSettings = HighNibble(S.ledSegmentsSettings) + LowNibble(value)]
    ELSE S

findPreviousAltTime(value) ==
    IF \E r \in 2..Len(valueAltTimes) : valueAltTimes[r] = value
    THEN valueAltTimes[(CHOOSE r \in 2..Len(valueAltTimes) : valueAltTimes[r] = value) - 1]
    ELSE valueAltTimes[Len(valueAltTimes)]

\* a step up that stays at the last entry of the table
findNextAltTimeOrLast(value) ==
    IF \E r \in 1..(Len(valueAltTimes) - 1) : valueAltTimes[r] = value
    THEN valueAltTimes[(CHOOSE r \in 1..(Len(valueAltTimes) - 1) : valueAltTimes[r] = value) + 1]
    ELSE valueAltTimes[Len(valueAltTimes)]

findNextAltTime(value) ==
    IF \E r \in 1..(Len(valueAltTimes) - 1) : valueAltTimes[r] = value
    THEN valueAltTimes[(CHOOSE r \in 1..(Len(valueAltTimes) - 1) : valueAltTimes[r] = value) + 1]
    ELSE valueAltTimes[1]

\* userSettings, button 1
settingsDec(S, pos) ==
    LET value == getSettingByPosition(S, pos)
    IN IF pos = SET_POSITION_CLOCK_FACE
       THEN IF (value - 1) % 256 >= DEFAULT_FACTORY_CLOCK_FACES THEN 0 ELSE (value - 1) % 256
       ELSE IF pos = SET_POSITION_TIME_DATE
       THEN IF value = DISPLAY_TIME_AND_DATE THEN DISPLAY_TIME
            ELSE IF value = DISPLAY_TIME THEN DISPLAY_DATE
            ELSE IF value = DISPLAY_DATE THEN DISPLAY_NONE
            ELSE DISPLAY_TIME_AND_DATE
       ELSE IF pos = SET_POSITION_ALT_TIMER THEN findPreviousAltTime(value)
       ELSE IF pos = SET_POSITION_FLASH_COLON
       THEN IF value = DISPLAY_COLONS_FLASH_EVERY_SECOND
            THEN DISPLAY_COLONS_ON ELSE DISPLAY_COLONS_FLASH_EVERY_SECOND
       ELSE value

\* userSettings, button 3
settingsInc(S, pos) ==
    LET value == getSettingByPosition(S, pos)
    IN IF pos = SET_POSITION_CLOCK_FACE
       THEN IF (value + 1) % 256 >= DEFAULT_FACTORY_CLOCK_FACES
            THEN DEFAULT_FACTORY_CLOCK_FACES - 1 ELSE (value + 1) % 256
       ELSE IF pos = SET_POSITION_TIME_DATE
       THEN IF value = DISPLAY_TIME_AND_DATE THEN DISPLAY_NONE
            ELSE IF value = DISPLAY_NONE THEN DISPLAY_DATE
            ELSE IF value = DISPLAY_DATE THEN DISPLAY_TIME
            ELSE DISPLAY_TIME_AND_DATE
       ELSE IF pos = SET_POSITION_ALT_TIMER THEN findNextAltTime(value)
       ELSE IF pos = SET_POSITION_FLASH_COLON
       THEN IF value = DISPLAY_COLONS_FLASH_EVERY_SECOND
            THEN DISPLAY_COLONS_ON ELSE DISPLAY_COLONS_FLASH_EVERY_SECOND
       ELSE value

(***************************************************************************)
(* The state machine                                                       *)
(***************************************************************************)
Cur ==
    [hours |-> hours, minutes |-> minutes, seconds |-> seconds,
     years |-> years, months |-> months, dayOfMonth |-> dayOfMonth,
     hoursHand |-> hoursHand, previousHoursHand |-> previousHoursHand,
     previousHours |-> previousHours, previousMinutes |-> previousMinutes,
     previousSeconds |-> previousSeconds,
     ring |-> ring, segments |-> segments,
     ledSegmentsDisplay |-> ledSegmentsDisplay, blinkActive |-> blinkActive,
     isButtonPressed |-> isButtonPressed,
     cmds |-> <<>>, before |-> NoDraw, drew |-> FALSE]

App == MakeApp(hoursMarkerColor, hoursColor, minutesColor, secondsColor)

Settings ==
    [clockFace |-> clockFace, ledSegmentsSettings |-> ledSegmentsSettings,
     ledSegmentsToggleSeconds |-> ledSegmentsToggleSeconds]

\* two ringAnimation calls ending in COLOR_BLANK (or ledWriteAllOff) leave the ring dark
wipe(R) == [R EXCEPT !.ring = ringAnimation(COLOR_BLANK), !.cmds = <<>>, !.before = NoDraw, !.drew = FALSE]

\* the state a handler leaves behind; a handler that returns into loop() ends
\* with normalMode, which calls drawNormalLedSegments when it drew the face
Step(npc, nsel, R, app, S, pos, chg, e, clock, w, op, nkeys) ==
    /\ pc' = npc
    /\ selValue' = nsel
    /\ clockFace' = S.clockFace
    /\ ledSegmentsSettings' = S.ledSegmentsSettings
    /\ ledSegmentsToggleSeconds' = S.ledSegmentsToggleSeconds
    /\ hours' = R.hours /\ minutes' = R.minutes /\ seconds' = R.seconds
    /\ years' = R.years /\ months' = R.months /\ dayOfMonth' = R.dayOfMonth
    /\ hoursHand' = R.hoursHand /\ previousHoursHand' = R.previousHoursHand
    /\ previousHours' = R.previousHours /\ previousMinutes' = R.previousMinutes
    /\ previousSeconds' = R.previousSeconds
    /\ ring' = R.ring /\ cmds' = R.cmds /\ before' = R.before /\ drew' = R.drew
    /\ LET D == IF npc = "loop" /\ R.drew THEN drawNormalLedSegments(R, S) ELSE R
       IN segments' = D.segments /\ ledSegmentsDisplay' = D.ledSegmentsDisplay
    /\ blinkActive' = R.blinkActive /\ isButtonPressed' = R.isButtonPressed
    /\ hoursMarkerColor' = app.hoursMarkerColor /\ hoursColor' = app.hoursColor
    /\ minutesColor' = app.minutesColor /\ secondsColor' = app.secondsColor
    /\ position' = pos
    /\ settingsChangedFlag' = chg
    /\ eeprom' = e
    /\ rtc' = clock
    /\ written' = w
    /\ lastOp' = op
    /\ keys' = nkeys
    /\ ticks' = ticks

\* the DS1307 one second later
NextSecond(clock) ==
    LET s == bcdToDec(clock.seconds) m == bcdToDec(clock.minutes) h == bcdToDec(clock.hours)
        d == bcdToDec(clock.dayOfMonth) mo == bcdToDec(clock.months) y == bcdToDec(clock.years)
        cm == s = 59
        ch == cm /\ m = 59
        cd == ch /\ h = 23
        dmax == getDaysMaxBasedOnMonthAndLeapYear([months |-> mo, years |-> y])
        cmo == cd /\ d >= dmax
        cy == cmo /\ mo = 12
    IN setDateDs1307(IF cm THEN 0 ELSE s + 1,
                     IF ch THEN 0 ELSE IF cm THEN m + 1 ELSE m,
                     IF cd THEN 0 ELSE IF ch THEN h + 1 ELSE h,
                     IF cmo THEN 1 ELSE IF cd THEN d + 1 ELSE d,
                     IF cy THEN 1 ELSE IF cmo THEN mo + 1 ELSE mo,
                     IF cy THEN (y + 1) % 100 ELSE y)

\* the time source advances by one second between two iterations of loop(),
\* whose globals hold the last reading; the menus are left within the second
\* in which they were entered
RtcTick ==
    /\ ticks > 0
    /\ pc = "loop"
    /\ seconds = bcdToDec(rtc.seconds % 128)
    /\ minutes = bcdToDec(rtc.minutes)
    /\ hours = bcdToDec(rtc.hours % 64)
    /\ rtc' = NextSecond(rtc)
    /\ ticks' = ticks - 1
    /\ cmds' = <<>> /\ before' = NoDraw /\ drew' = FALSE /\ written' = <<>>
    /\ lastOp' = "rtc"
    /\ UNCHANGED <<pc, selValue, clockFace, hours, minutes, seconds, years, months, dayOfMonth,
                   hoursHand, previousHoursHand, previousHours, previousMinutes, previousSeconds,
                   hoursMarkerColor, hoursColor, minutesColor, secondsColor,
                   ledSegmentsSettings, ledSegmentsToggleSeconds, position, settingsChangedFlag,
                   eeprom, ring, segments, keys,
                   ledSegmentsDisplay, blinkActive, isButtonPressed>>

\* loop() with no button pressed: normalMode only
LoopIdle ==
    /\ pc = "loop"
    /\ Step("loop", selValue, normalMode(Cur, App, rtc), App, Settings, position,
            settingsChangedFlag, eeprom, rtc, <<>>, "normalMode", keys)

\* clockFace++ with its wrap, which stays at the last face
nextFaceOrLast(face) ==
    IF (face + 1) % 256 >= DEFAULT_FACTORY_CLOCK_FACES
    THEN DEFAULT_FACTORY_CLOCK_FACES - 1 ELSE (face + 1) % 256

\* loop(), button 1: clockFace--, and 9 when the byte is then 10 or more
previousFace(face) ==
    IF (face - 1) % 256 >= DEFAULT_FACTORY_CLOCK_FACES
    THEN DEFAULT_FACTORY_CLOCK_FACES - 1 ELSE (face - 1) % 256

\* loop(), button 3: clockFace++, and 0 when the byte is then 10 or more
nextFace(face) ==
    IF (face + 1) % 256 >= DEFAULT_FACTORY_CLOCK_FACES THEN 0 ELSE (face + 1) % 256

\* userSelectedStyle, then normalMode
userSelectedStyle(face) ==
    \E app \in loadFaceSettingsOrFactoryDefaults(eeprom, face) :
        Step("loop", selValue,
             normalMode(ledSegmentsClearAll(resetPreviousValues(wipe(Cur))), app, rtc), app,
             [Settings EXCEPT !.clockFace = face], position, settingsChangedFlag,
             eeprom, rtc, <<>>, "userSelectedStyle", keys - 1)

\* loop(), button 1
SelectPreviousFace ==
    /\ pc = "loop" /\ keys > 0
    /\ userSelectedStyle(previousFace(clockFace))

\* loop(), button 3
SelectNextFace ==
    /\ pc = "loop" /\ keys > 0
    /\ userSelectedStyle(nextFace(clockFace))

\* loop(), button 2: userSelectMode starts with value = MODE_NORMAL
EnterSelectMode ==
    /\ pc = "loop"
    /\ Step("selectMode", MODE_NORMAL,
            ledSegmentsDisplayChars(initUserSelect(Cur)),
            App, Settings, position,
            settingsChangedFlag, eeprom, rtc, <<>>, "userSelectMode", keys)

\* userSelectMode, button 1 or 3
SelectModeKey ==
    /\ pc = "selectMode"
    /\ \E k \in {KEY_PRESSED_1, KEY_PRESSED_3} :
        Step("selectMode",
             IF k = KEY_PRESSED_1
             THEN (IF selValue + 1 > MODE_SET_TIME_AND_DATE THEN MODE_NORMAL ELSE selValue + 1)
             ELSE (IF selValue - 1 < MODE_NORMAL THEN MODE_SET_TIME_AND_DATE ELSE selValue - 1),
             ledSegmentsDisplayChars(Cur), App, Settings, position,
             settingsChangedFlag, eeprom, rtc, <<>>, "userSelectMode", keys)

\* userSelectMode, button 2: mode = value; loop() goes on into the menu of that
\* mode (its code up to the first key reading), or into normalMode.  The local
\* `value` is gone when userSelectMode returns.
SelectModeConfirm ==
    /\ pc = "selectMode"
    /\ LET Entry(display, pos) ==
               drawConfigurationLedSegments(
                   [initUserSelect(Cur) EXCEPT !.ledSegmentsDisplay = display], pos, pos)
       IN IF selValue = MODE_SET_TIME_AND_DATE
          THEN Step("timeDate", MODE_NORMAL, Entry(DISPLAY_TIME, SET_POSITION_HOURS), App, Settings,
                    SET_POSITION_HOURS, 0,
                    eeprom, rtc, <<>>, "userSetTimeAndDate", keys)
          ELSE IF selValue = MODE_SET_STYLING
          THEN Step("styling", MODE_NORMAL,
                    drawDisplayConfiguration(ledWriteAllOff(Entry(DISPLAY_CONFIG, SET_POSITION_HOURS)), App),
                    App, Settings, SET_POSITION_HOURS, 0, eeprom, rtc, <<>>,
                    "userSetFaceColorAndStyle", keys)
          ELSE IF selValue = MODE_SET_SETTINGS
          THEN Step("settings", MODE_NORMAL, wipe(Entry(DISPLAY_SETTINGS, SET_POSITION_CLOCK_FACE)),
                    App, Settings, SET_POSITION_CLOCK_FACE, 0,
                    eeprom, rtc, <<>>, "userSettings", keys)
          ELSE Step("loop", MODE_NORMAL, normalMode(Cur, App, rtc), App, Settings, position,
                    settingsChangedFlag, eeprom, rtc, <<>>, "normalMode", keys)

\* a key test that looks at the bits of buttons 1 and 3 instead of the whole chord
IsEditAnyOf(k) == k % 2 = 1 \/ (k \div 4) % 2 = 1

IsEdit(k) == k \in {KEY_PRESSED_1, KEY_PRESSED_3}

\* the debounced chords no menu tests for
OtherChords ==
    {KEY_PRESSED_NONE, KEY_PRESSED_1_2, KEY_PRESSED_1_3, KEY_PRESSED_2_3, KEY_PRESSED_1_2_3}

\* the handler that ran and the button it read (button 1 = Dec, button 3 = Inc)
ButtonOp(name, name1, name3, k) ==
    IF k = KEY_PRESSED_1 THEN name1
    ELSE IF k = KEY_PRESSED_3 THEN name3
    ELSE IF k \in OtherChords \ {KEY_PRESSED_NONE} THEN "chord"
    ELSE name

\* blinkUpdate after the key tests of a menu iteration
blinkUpdateOf(k) == IF IsEdit(k) THEN 2 ELSE IF k = KEY_PRESSED_2 THEN 3 ELSE 0

\* the label of a menu iteration: the button it read, or the blink timer when
\* it fired in an iteration that read none of the three buttons alone
IterationOp(name, k, fired) ==
    IF fired /\ blinkUpdateOf(k) = 0 THEN "updateBlinkTimer"
    ELSE ButtonOp(name, name \o ".button1", name \o ".button3", k)

\* a commit that does not look at the flag
ChangedOrNot(flag) == TRUE

\* if (settingsChangedFlag): the guard of every commit
Changed(flag) == flag # 0

\* one iteration of the loop of userSetTimeAndDate with the debounced chord k;
\* the iteration that sets exitFlag goes on to the commit and back into loop()
userSetTimeAndDate(k, fired) ==
    LET R0 == IF k = KEY_PRESSED_NONE THEN [Cur EXCEPT !.isButtonPressed = FALSE] ELSE Cur
        R1 == IF k = KEY_PRESSED_1 THEN timeDateDec(R0, position)
              ELSE IF k = KEY_PRESSED_3 THEN timeDateInc(R0, position)
              ELSE R0
        chg == IF IsEdit(k) THEN 1 ELSE settingsChangedFlag
        exit == k = KEY_PRESSED_2 /\ position + 1 > SET_POSITION_DAY
        pos == IF k = KEY_PRESSED_2
               THEN (IF exit THEN SET_POSITION_NONE ELSE position + 1)
               ELSE position
        Rd == IF k = KEY_PRESSED_2 /\ position + 1 = SET_POSITION_YEAR
              THEN [R1 EXCEPT !.ledSegmentsDisplay = DISPLAY_DATE] ELSE R1
        R2 == IF Rd.seconds # Rd.previousSeconds \/ Rd.minutes # Rd.previousMinutes
                 \/ Rd.hours # Rd.previousHours
              THEN drawClockFace(Rd, App) ELSE Rd
        R3 == redrawConfiguration(R2, pos, blinkUpdateOf(k), fired)
        R4 == IF k # KEY_PRESSED_NONE /\ ~R3.isButtonPressed
              THEN [R3 EXCEPT !.isButtonPressed = TRUE] ELSE R3
        clock == IF Changed(chg)
                 THEN setDateDs1307(0, R2.minutes, R2.hours, R2.dayOfMonth, R2.months, R2.years)
                 ELSE rtc
    IN IF exit
       THEN Step("loop", selValue,
                 normalMode(ledSegmentsClearAll(resetPreviousValues(wipe(R4))), App, clock), App,
                 Settings, pos, chg, eeprom, clock, <<>>, "userSetTimeAndDate.exit", keys)
       ELSE Step("timeDate", selValue, R4, App, Settings, pos, chg, eeprom, rtc, <<>>,
                 IterationOp("userSetTimeAndDate", k, fired),
                 IF IsEdit(k) THEN keys - 1 ELSE keys)

\* button 1 or 3 on one of the time fields
TimeDateEdit ==
    /\ pc = "timeDate" /\ keys > 0
    /\ position <= SET_POSITION_SECONDS
    /\ \E k \in {KEY_PRESSED_1, KEY_PRESSED_3} : userSetTimeAndDate(k, FALSE)

\* button 1 or 3 on one of the date fields
DateEdit ==
    /\ pc = "timeDate" /\ keys > 0
    /\ position > SET_POSITION_SECONDS
    /\ \E k \in {KEY_PRESSED_1, KEY_PRESSED_3} : userSetTimeAndDate(k, FALSE)

TimeDateConfirm == pc = "timeDate" /\ userSetTimeAndDate(KEY_PRESSED_2, FALSE)

TimeDateIdle == pc = "timeDate" /\ userSetTimeAndDate(KEY_PRESSED_NONE, FALSE)

\* an iteration that read no button or several buttons at once
TimeDateChord == pc = "timeDate" /\ \E k \in OtherChords : userSetTimeAndDate(k, FALSE)

\* one iteration of the loop of userSetFaceColorAndStyle with the debounced chord k
userSetFaceColorAndStyle(k, fired) ==
    LET app == IF k = KEY_PRESSED_1
               THEN setOptionsByPosition(App, position, nextStyle(App, position))
               ELSE IF k = KEY_PRESSED_3
               THEN setColorByPosition(App, position, nextColor(App, position))
               ELSE App
        R1 == IF k = KEY_PRESSED_1 \/ (k = KEY_PRESSED_3 /\ nextColor(App, position) = COLOR_BLANK)
              THEN ledWriteAllOff(Cur)
              ELSE Cur
        chg == IF IsEdit(k) THEN 1 ELSE settingsChangedFlag
        exit == k = KEY_PRESSED_2 /\ position + 1 # SET_POSITION_YEAR
                /\ position + 1 > SET_POSITION_MARKERS
        pos == IF k = KEY_PRESSED_2
               THEN (IF position + 1 = SET_POSITION_YEAR THEN SET_POSITION_MARKERS
                     ELSE IF exit THEN SET_POSITION_NONE ELSE position + 1)
               ELSE position
        R2 == IF IsEdit(k) THEN drawDisplayConfiguration(R1, app) ELSE R1
        R3 == redrawConfiguration(R2, pos, blinkUpdateOf(k), fired)
    IN IF exit
       THEN Step("loop", selValue,
                 normalMode(ledSegmentsClearAll(resetPreviousValues(wipe(R3))), app, rtc), app,
                 Settings, pos, chg,
                 IF Changed(chg) THEN writeFaceRecord(eeprom, clockFace, app) ELSE eeprom, rtc,
                 IF Changed(chg) THEN FaceRecordOffsets(clockFace) ELSE <<>>,
                 "userSetFaceColorAndStyle.exit", keys)
       ELSE Step("styling", selValue, R3, app, Settings, pos, chg, eeprom, rtc, <<>>,
                 IterationOp("userSetFaceColorAndStyle", k, fired),
                 IF IsEdit(k) THEN keys - 1 ELSE keys)

StylingEdit ==
    /\ pc = "styling" /\ keys > 0
    /\ \E k \in {KEY_PRESSED_1, KEY_PRESSED_3} : userSetFaceColorAndStyle(k, FALSE)

\* a styling menu in which button 2 on the markers goes back to the hours
StylingConfirmWraps ==
    /\ pc = "styling"
    /\ IF position = SET_POSITION_MARKERS
       THEN Step("styling", selValue,
                 redrawConfiguration(Cur, SET_POSITION_HOURS, 3, FALSE),
                 App, Settings, SET_POSITION_HOURS, settingsChangedFlag,
                 eeprom, rtc, <<>>, "userSetFaceColorAndStyle", keys)
       ELSE userSetFaceColorAndStyle(KEY_PRESSED_2, FALSE)

StylingConfirm == pc = "styling" /\ userSetFaceColorAndStyle(KEY_PRESSED_2, FALSE)

StylingChord == pc = "styling" /\ \E k \in OtherChords : userSetFaceColorAndStyle(k, FALSE)

\* one iteration of the loop of userSettings with the debounced chord k
userSettings(k, fired) ==
    LET S == IF k = KEY_PRESSED_1
             THEN setSettingByPosition(Settings, App, position, settingsDec(Settings, position))
             ELSE IF k = KEY_PRESSED_3
             THEN setSettingByPosition(Settings, App, position, settingsInc(Settings, position))
             ELSE Settings
        chg == IF IsEdit(k) THEN 1 ELSE settingsChangedFlag
        exit == k = KEY_PRESSED_2 /\ position + 1 > SET_POSITION_FLASH_COLON
        pos == IF k = KEY_PRESSED_2
               THEN (IF exit THEN SET_POSITION_NONE ELSE position + 1)
               ELSE position
        R3 == redrawConfiguration(Cur, pos, blinkUpdateOf(k), fired)
    IN IF exit
       THEN Step("loop", selValue,
                 normalMode(ledSegmentsClearAll(resetPreviousValues(wipe(R3))), App, rtc), App,
                 S, pos, chg,
                 IF Changed(chg)
                 THEN writeSettings(eeprom, S.clockFace, S.ledSegmentsSettings, S.ledSegmentsToggleSeconds)
                 ELSE eeprom,
                 rtc, IF Changed(chg) THEN SettingsOffsets ELSE <<>>, "userSettings.exit", keys)
       ELSE Step("settings", selValue, R3, App, S, pos, chg,
                 eeprom, rtc, <<>>,
                 IterationOp("userSettings", k, fired),
                 IF IsEdit(k) THEN keys - 1 ELSE keys)

SettingsEdit ==
    /\ pc = "settings" /\ keys > 0
    /\ \E k \in {KEY_PRESSED_1, KEY_PRESSED_3} : userSettings(k, FALSE)

SettingsConfirm == pc = "settings" /\ userSettings(KEY_PRESSED_2, FALSE)

SettingsChord == pc = "settings" /\ \E k \in OtherChords : userSettings(k, FALSE)

\* an iteration of a menu in which the blink timer fired: no button, or a
\* chord the menu does not test for
TimeDateBlink == pc = "timeDate" /\ \E k \in OtherChords : userSetTimeAndDate(k, TRUE)

StylingBlink == pc = "styling" /\ \E k \in OtherChords : userSetFaceColorAndStyle(k, TRUE)

SettingsBlink == pc = "settings" /\ \E k \in OtherChords : userSettings(k, TRUE)

\* loop(), buttons 1+2: userResetFactoryDefaults; pressed is pressedKeys as
\* ringAnimationUntilNotKeyCombination leaves it, the chord if every sample read it
userResetFactoryDefaults(pressed) ==
    LET held == pressed = KEY_PRESSED_1_2
        R == [Cur EXCEPT !.ledSegmentsDisplay = DISPLAY_RESET]
        e == IF held THEN writeFactorySettingsToEeprom(eeprom) ELSE eeprom
        S == IF held THEN loadSettingsOrFactoryDefaults(e) ELSE Settings
    IN \E app \in (IF held THEN loadFaceSettingsOrFactoryDefaults(e, S.clockFace) ELSE {App}) :
        Step("loop", selValue,
             normalMode(ledSegmentsClearAll(resetPreviousValues(wipe(R))), app, rtc), app, S,
             position, settingsChangedFlag, e, rtc, IF held THEN FactoryOffsets ELSE <<>>,
             IF held THEN "userResetFactoryDefaults.reset" ELSE "userResetFactoryDefaults.abort",
             keys - 1)

\* the key samples of ringAnimationUntilNotKeyCombination: one after the first
\* frame, one after each of the 29 frames of the loop, one after the last frame
AnimationSamples == 31

\* a hold animation that does not read the keys after its last frame
ringAnimationUntilLastFrame(samples, keyCombination) ==
    LET early == {i \in 1..(Len(samples) - 1) : samples[i] # keyCombination}
    IN IF early # {}
       THEN samples[CHOOSE i \in early : \A j \in early : i <= j]
       ELSE keyCombination

\* ringAnimationUntilNotKeyCombination: pressedKeys when it returns, which is
\* the first sample that is not the chord and otherwise the last sample
ringAnimationUntilNotKeyCombination(samples, keyCombination) ==
    LET early == {i \in 1..(Len(samples) - 1) : samples[i] # keyCombination}
    IN IF early # {}
       THEN samples[CHOOSE i \in early : \A j \in early : i <= j]
       ELSE samples[Len(samples)]

\* what the keys read during the hold animation: the chord 1+2 throughout, or
\* something else at the first, second, last but one or last sample
HoldSamples ==
    {[i \in 1..AnimationSamples |-> KEY_PRESSED_1_2]}
        \cup {[i \in 1..AnimationSamples |-> IF i = d THEN v ELSE KEY_PRESSED_1_2] :
                  d \in {1, 2, AnimationSamples - 1, AnimationSamples},
                  v \in {KEY_PRESSED_NONE, KEY_PRESSED_1, KEY_PRESSED_1_2_3}}

\* if (pressedKeys == KEY_PRESSED_1_2) after the hold animation
StillPressed(samples) ==
    ringAnimationUntilNotKeyCombination(samples, KEY_PRESSED_1_2) = KEY_PRESSED_1_2

FactoryReset ==
    /\ pc = "loop" /\ keys > 0
    /\ \E pressed \in {ringAnimationUntilNotKeyCombination(samples, KEY_PRESSED_1_2) :
                           samples \in HoldSamples} :
           userResetFactoryDefaults(pressed)

\* the state setup() leaves, for EEPROM contents e and time source clock, with
\* the budgets of seconds and presses
InitWith(e, clock, nticks, nkeys) ==
    LET S == loadSettingsOrFactoryDefaults(e)
    IN \E app \in loadFaceSettingsOrFactoryDefaults(e, S.clockFace) :
        /\ pc = "loop" /\ selValue = MODE_NORMAL
        /\ clockFace = S.clockFace
        /\ ledSegmentsSettings = S.ledSegmentsSettings
        /\ ledSegmentsToggleSeconds = S.ledSegmentsToggleSeconds
        /\ hours = 0 /\ minutes = 0 /\ seconds = 0
        /\ years = 0 /\ months = 0 /\ dayOfMonth = 0
        /\ hoursHand = 0 /\ previousHoursHand = 0 /\ previousHours = 0
        /\ previousMinutes = 0 /\ previousSeconds = 0
        /\ hoursMarkerColor = app.hoursMarkerColor /\ hoursColor = app.hoursColor
        /\ minutesColor = app.minutesColor /\ secondsColor = app.secondsColor
        /\ position = 0 /\ settingsChangedFlag = 0
        /\ eeprom = e
        /\ ring = DarkRing
        /\ segments = Shown("clear", 0)
        /\ ledSegmentsDisplay = DISPLAY_TIME
        /\ blinkActive = FALSE /\ isButtonPressed = FALSE
        /\ rtc = clock
        /\ cmds = <<>> /\ before = NoDraw /\ drew = FALSE /\ written = <<>>
        /\ lastOp = "setup"
        /\ ticks = nticks /\ keys = nkeys

(***************************************************************************)
(* Specifications                                                          *)
(***************************************************************************)
BlankEeprom == [o \in EepromOffsets |-> 0]

\* a time source showing h:m:s on 28 February of year 24
ClockAt(h, m, s) == setDateDs1307(s, m, h, 28, 2, 24)

StartTimes == {<<10, 10, 23>>, <<2, 9, 59>>, <<9, 59, 59>>, <<11, 59, 59>>, <<0, 0, 0>>}

\* records a styling session can leave: Hands over a Trace without markers,
\* a Trace under Hands with markers, and a seconds Trace crossed by two hands
StyledRecords ==
    {<<COLOR_BLANK, COLOR_CYAN + COLOR_HANDS, COLOR_GREEN + COLOR_TRACE, COLOR_RED + COLOR_HANDS>>,
     <<COLOR_BLUE + MARKER_HOUR_EVERY, COLOR_CYAN + COLOR_TRACE, COLOR_GREEN + COLOR_DOT, COLOR_RED + COLOR_HANDS>>,
     <<COLOR_PURPLE + MARKER_HOUR_QUARTERS, COLOR_CYAN + COLOR_HANDS, COLOR_GREEN + COLOR_HANDS, COLOR_RED + COLOR_TRACE>>}

\* EEPROM with face index f and the record rec stored for face g
StoredEeprom(f, g, rec) ==
    [o \in EepromOffsets |->
        IF o = EEPROM_CLOCK_FACE_NUMBER THEN f
        ELSE IF o \in FaceOffset(g, 0)..FaceOffset(g, 3) THEN rec[o - FaceOffset(g, 0) + 1]
        ELSE 0]

\* The renderer under normal ticks and the time menu: boot with any of the ten
\* faces selected and no stored record (the factory appearance), or with a
\* styled record stored for face 0, at one of the start times.
RenderInit ==
    \E tm \in StartTimes :
        \/ \E f \in 0..(DEFAULT_FACTORY_CLOCK_FACES - 1) :
               InitWith(StoredEeprom(f, f, <<0, 0, 0, 0>>), ClockAt(tm[1], tm[2], tm[3]), RenderTicks, RenderKeys)
        \/ \E rec \in StyledRecords :
               InitWith(StoredEeprom(0, 0, rec), ClockAt(tm[1], tm[2], tm[3]), RenderTicks, RenderKeys)

RenderNext ==
    \/ RtcTick
    \/ LoopIdle
    \/ EnterSelectMode
    \/ SelectModeKey
    \/ SelectModeConfirm
    \/ TimeDateEdit
    \/ TimeDateConfirm
    \/ TimeDateIdle

SpecRender == RenderInit /\ [][RenderNext]_vars

\* The renderer with one tick and one press: boots as in RenderInit at three
\* of the start times, then normal ticks and a time/date session of presses.
DialTicks == 1
DialKeys == 1

\* a start within a minute, one before the minute hand moves on, and midnight
DialTimes == {<<10, 10, 23>>, <<2, 9, 59>>, <<0, 0, 0>>}

DialInit ==
    \E tm \in DialTimes :
        \/ \E f \in 0..(DEFAULT_FACTORY_CLOCK_FACES - 1) :
               InitWith(StoredEeprom(f, f, <<0, 0, 0, 0>>), ClockAt(tm[1], tm[2], tm[3]), DialTicks, DialKeys)
        \/ \E rec \in StyledRecords :
               InitWith(StoredEeprom(0, 0, rec), ClockAt(tm[1], tm[2], tm[3]), DialTicks, DialKeys)

DialNext ==
    \/ RtcTick
    \/ LoopIdle
    \/ EnterSelectMode
    \/ SelectModeKey
    \/ SelectModeConfirm
    \/ TimeDateEdit
    \/ TimeDateConfirm

SpecDial == DialInit /\ [][DialNext]_vars

\* records found in the EEPROM: never written, a single non-zero byte in each
\* of the four places, a styled record and erased flash
LoadRecords ==
    {<<0, 0, 0, 0>>, <<1, 0, 0, 0>>, <<0, COLOR_DOT, 0, 0>>, <<0, 0, COLOR_GREEN + COLOR_TRACE, 0>>,
     <<0, 0, 0, COLOR_RED>>,
     <<COLOR_PURPLE + MARKER_HOUR_QUARTERS, COLOR_CYAN + COLOR_HANDS, COLOR_GREEN + COLOR_HANDS, COLOR_RED + COLOR_TRACE>>,
     <<255, 255, 255, 255>>}

\* Loading face records: boot with any face selected and one of the records
\* stored for some face, then select a neighbouring face by button.
LoadInit ==
    \E f \in 0..(DEFAULT_FACTORY_CLOCK_FACES - 1), g \in 0..(DEFAULT_FACTORY_CLOCK_FACES - 1),
       rec \in LoadRecords :
        InitWith(StoredEeprom(f, g, rec), ClockAt(10, 10, 23), 0, LoadKeys)

LoadNext ==
    \/ SelectPreviousFace
    \/ SelectNextFace

SpecLoad == LoadInit /\ [][LoadNext]_vars

\* settings bytes found in the EEPROM at offsets 0 and 2: valid ones, the
\* first values past the valid range, a period outside the table, erased flash
StoredFaceBytes == {0, 9, 10, 11, 255}
StoredPeriodBytes == {0, 1, 7, 60, 255}

\* the pairs of the two booted from: the index 10 (whose factory row does not
\* exist) with two of the periods, every other index with every period
StoredSettings ==
    ((StoredFaceBytes \ {DEFAULT_FACTORY_CLOCK_FACES}) \X StoredPeriodBytes)
        \cup ({DEFAULT_FACTORY_CLOCK_FACES} \X {0, 60})

\* EEPROM with face index f and alternation period a, no face record stored
SettingsEeprom(f, a) ==
    [o \in EepromOffsets |->
        IF o = EEPROM_CLOCK_FACE_NUMBER THEN f
        ELSE IF o = EEPROM_DATE_TIME_AND_COLON
        THEN DISPLAY_TIME_AND_DATE + DISPLAY_COLONS_FLASH_EVERY_SECOND
        ELSE IF o = EEPROM_ALTERNATE_COUNTER THEN a
        ELSE 0]

\* Boot from any stored settings bytes, then face selection, the settings menu
\* and the factory reset.
BootInit ==
    \E fa \in StoredSettings :
        InitWith(SettingsEeprom(fa[1], fa[2]), ClockAt(10, 10, 23), 0, BootKeys)

BootNext ==
    \/ LoopIdle
    \/ SelectPreviousFace
    \/ SelectNextFace
    \/ EnterSelectMode
    \/ SelectModeKey
    \/ SelectModeConfirm
    \/ TimeDateConfirm
    \/ StylingConfirm
    \/ SettingsEdit
    \/ SettingsConfirm
    \/ FactoryReset

SpecBoot == BootInit /\ [][BootNext]_vars

\* Boot from three stored settings, then face selection and the factory reset.
ResetKeys == 3

ResetInit ==
    \E fa \in {<<0, 60>>, <<DEFAULT_FACTORY_CLOCK_FACES - 1, 7>>, <<255, 255>>} :
        InitWith(SettingsEeprom(fa[1], fa[2]), ClockAt(10, 10, 23), 0, ResetKeys)

ResetNext ==
    \/ LoopIdle
    \/ SelectPreviousFace
    \/ SelectNextFace
    \/ FactoryReset

SpecReset == ResetInit /\ [][ResetNext]_vars

\* a time source showing h:m:s on day d of month mo of year y
ClockOn(h, m, s, d, mo, y) == setDateDs1307(s, m, h, d, mo, y)

\* <<hours, minutes, seconds, day, month, year>>: every field at its minimum,
\* every field at its maximum, and the ends of January, February and April
StartDates ==
    {<<0, 0, 0, 1, 1, 0>>, <<23, 59, 59, 31, 12, 99>>, <<10, 10, 23, 31, 1, 23>>,
     <<10, 10, 23, 29, 2, 24>>, <<10, 10, 23, 28, 2, 23>>, <<10, 10, 23, 1, 2, 24>>,
     <<10, 10, 23, 30, 4, 24>>}

\* The time/date menu: boot with the factory face at one of the dates, read
\* the time source in loop(), then enter the menu, edit and commit.
TimeDateInit ==
    \E dt \in StartDates :
        InitWith(BlankEeprom, ClockOn(dt[1], dt[2], dt[3], dt[4], dt[5], dt[6]), 0, TimeKeys)

TimeDateNext ==
    \/ LoopIdle
    \/ EnterSelectMode
    \/ SelectModeKey
    \/ SelectModeConfirm
    \/ TimeDateEdit
    \/ DateEdit
    \/ TimeDateConfirm
    \/ TimeDateIdle
    \/ StylingConfirm
    \/ SettingsConfirm

SpecTimeDate == TimeDateInit /\ [][TimeDateNext]_vars

\* The settings menu: boot with the first, a middle or the last face stored as
\* the active one and any period of the table, then enter the menu and edit.
SettingsInit ==
    \E f \in {0, 5, DEFAULT_FACTORY_CLOCK_FACES - 1}, i \in 1..Len(valueAltTimes) :
        InitWith(SettingsEeprom(f, valueAltTimes[i]), ClockAt(10, 10, 23), 0, SettingsKeys)

SettingsNext ==
    \/ LoopIdle
    \/ EnterSelectMode
    \/ SelectModeKey
    \/ SelectModeConfirm
    \/ SettingsEdit
    \/ SettingsConfirm
    \/ TimeDateConfirm
    \/ StylingConfirm

SpecSettings == SettingsInit /\ [][SettingsNext]_vars

\* records the styling menu starts from: every field white with one of each
\* style, and erased flash (no valid style or color anywhere)
StylingRecords ==
    {<<COLOR_WHITE + MARKER_HOUR_TWELTH, COLOR_WHITE + COLOR_HANDS,
       COLOR_WHITE + COLOR_TRACE, COLOR_WHITE + COLOR_DOT>>,
     <<255, 255, 255, 255>>}

\* The styling menu: boot with factory face 0 (all Hands) or 5 (markers off, no
\* density stored) or with a record stored for face 0, then enter the menu and
\* press.
StylingInit ==
    \/ \E f \in {0, 5} :
           InitWith(StoredEeprom(f, f, <<0, 0, 0, 0>>), ClockAt(10, 10, 23), 0, StylingKeys)
    \/ \E rec \in StylingRecords :
           InitWith(StoredEeprom(0, 0, rec), ClockAt(10, 10, 23), 0, StylingKeys)

StylingNext ==
    \/ LoopIdle
    \/ EnterSelectMode
    \/ SelectModeKey
    \/ SelectModeConfirm
    \/ StylingEdit
    \/ StylingConfirm
    \/ TimeDateConfirm
    \/ SettingsConfirm

SpecStyling == StylingInit /\ [][StylingNext]_vars

\* <<hours, minutes, seconds, day, month, year>> the menus are entered at
MenuDates == {<<10, 10, 23, 31, 1, 23>>, <<23, 59, 59, 31, 12, 99>>}

\* The three menus with every chord: boot with factory face 0 or 5 and stored
\* settings, read the time source in loop(), then enter a menu, press and idle.
MenusInit ==
    \E f \in {0, 5}, dt \in MenuDates :
        InitWith(SettingsEeprom(f, 5), ClockOn(dt[1], dt[2], dt[3], dt[4], dt[5], dt[6]), 0, MenuKeys)

MenusNext ==
    \/ LoopIdle
    \/ EnterSelectMode
    \/ SelectModeKey
    \/ SelectModeConfirm
    \/ TimeDateEdit
    \/ DateEdit
    \/ TimeDateConfirm
    \/ TimeDateChord
    \/ StylingEdit
    \/ StylingConfirm
    \/ StylingChord
    \/ SettingsEdit
    \/ SettingsConfirm
    \/ SettingsChord

SpecMenus == MenusInit /\ [][MenusNext]_vars

\* button 2 in a menu: the only key that moves the field index
ConfirmPressed == pc \in {"timeDate", "styling", "settings"} /\ position' # position

\* the same with a user who goes on pressing button 2 while a menu is open: a
\* session that stays open for ever sees button 2 again and again
SpecMenusConfirmed ==
    /\ MenusInit /\ [][MenusNext]_vars
    /\ (<>[](pc \in {"timeDate", "styling", "settings"})) => []<><<ConfirmPressed>>_vars

\* The blinking field: boot, enter one of the three menus, press, idle and
\* let the blink timer fire.
BlinkKeys == 1

BlinkInit == InitWith(SettingsEeprom(0, 5), ClockAt(10, 10, 23), 0, BlinkKeys)

BlinkNext ==
    \/ LoopIdle
    \/ EnterSelectMode
    \/ SelectModeKey
    \/ SelectModeConfirm
    \/ TimeDateEdit
    \/ DateEdit
    \/ TimeDateConfirm
    \/ TimeDateIdle
    \/ TimeDateBlink
    \/ StylingEdit
    \/ StylingConfirm
    \/ StylingBlink
    \/ SettingsEdit
    \/ SettingsConfirm
    \/ SettingsBlink

SpecBlink == BlinkInit /\ [][BlinkNext]_vars

\* Normal mode alone, display mode TimeAndDate with each of the seven
\* alternation periods, over a little more than two minutes of seconds. loop()
\* runs for ever and the time source keeps counting: a pending tick is taken,
\* and normalMode has run again and again.
AlternateTicks == 125

AlternateInit ==
    \E i \in 1..Len(valueAltTimes) :
        InitWith(SettingsEeprom(0, valueAltTimes[i]), ClockAt(10, 10, 23), AlternateTicks, 0)

AlternateNext ==
    \/ RtcTick
    \/ LoopIdle

SpecAlternate ==
    /\ AlternateInit /\ [][AlternateNext]_vars
    /\ WF_vars(RtcTick)
    /\ []<>(lastOp = "normalMode")

Next ==
    \/ RtcTick
    \/ LoopIdle
    \/ SelectPreviousFace
    \/ SelectNextFace
    \/ EnterSelectMode
    \/ SelectModeKey
    \/ SelectModeConfirm
    \/ TimeDateEdit
    \/ DateEdit
    \/ TimeDateConfirm
    \/ TimeDateIdle
    \/ StylingEdit
    \/ StylingConfirm
    \/ SettingsEdit
    \/ SettingsConfirm
    \/ FactoryReset

\* Everything the firmware does, from a boot with face 1 selected and a styled
\* record stored for face 2
Init ==
    InitWith(StoredEeprom(1, 2, <<COLOR_BLANK, COLOR_CYAN + COLOR_HANDS, COLOR_GREEN + COLOR_TRACE, COLOR_RED + COLOR_HANDS>>),
             ClockAt(10, 10, 23), StoreTicks, StoreKeys)

Spec == Init /\ [][Next]_vars

(***************************************************************************)
(* What the ring is to show: the three hands of a draw context t, ranked   *)
(* in draw order, and the LEDs each one covers.                            *)
(***************************************************************************)
HandsOf(t) ==
    {[rank |-> 1, byte |-> t.minutesColor, value |-> t.minutes, previous |-> t.previousMinutes,
      own |-> RING_MINUTES, wide |-> RING_HOURS_MINUTES_SECONDS],
     [rank |-> 2, byte |-> t.hoursColor, value |-> t.hoursHand, previous |-> t.previousHoursHand,
      own |-> RING_HOURS, wide |-> RING_HOURS_MINUTES],
     [rank |-> 3, byte |-> t.secondsColor, value |-> t.seconds, previous |-> t.previousSeconds,
      own |-> RING_SECONDS, wide |-> RING_HOURS_MINUTES_SECONDS]}

StyleOf(byte) ==
    IF bitRead(byte, COLOR_BIT_TRACE) = 1 THEN "Trace"
    ELSE IF bitRead(byte, COLOR_BIT_DOT) = 1 THEN "Dot"
    ELSE IF bitRead(byte, COLOR_BIT_HANDS) = 1 THEN "Hands"
    ELSE "Off"

Visible(h) == LowNibble(h.byte) # COLOR_BLANK /\ StyleOf(h.byte) # "Off"

MarkerSteps(t) ==
    IF bitRead(t.hoursMarkerColor, MARKER_BIT_HOUR_EVERY) = 1 THEN 5
    ELSE IF bitRead(t.hoursMarkerColor, MARKER_BIT_HOUR_QUARTERS) = 1 THEN 15
    ELSE IF bitRead(t.hoursMarkerColor, MARKER_BIT_HOUR_TWELTH) = 1 THEN 60
    ELSE 0

MarkersVisible(t) == LowNibble(t.hoursMarkerColor) # COLOR_BLANK /\ MarkerSteps(t) > 0

\* the marker phase lights LED p of ring r
MarkerOn(t, r, p) ==
    MarkersVisible(t) /\ p % MarkerSteps(t) = 0 /\ RingIn(r, markersAt(t, p))

\* hand h, standing at v, covers LED p of ring r: a Dot its own ring at v, a
\* Hands hand its rings at v, a Trace its own ring from 12 o'clock up to v
\* (position 0 belongs to the twelve marker when markers are shown)
CoversAt(t, h, v, r, p) ==
    /\ Visible(h)
    /\ IF StyleOf(h.byte) = "Trace"
       THEN r = h.own /\ p <= v /\ (p > 0 \/ ~MarkersVisible(t))
       ELSE IF StyleOf(h.byte) = "Dot"
       THEN r = h.own /\ p = v
       ELSE RingIn(r, h.wide) /\ p = v

\* the hands that cover LED p of ring r now
Covering(t, r, p) == {h \in HandsOf(t) : CoversAt(t, h, h.value, r, p)}

\* the ring a forced redraw of the same values and appearance yields on a dark ring
FullRedraw(t) ==
    ApplyCmds(DarkRing, drawClockFaceCmds([t EXCEPT !.previousHoursHand = 0,
                                                    !.previousMinutes = 0,
                                                    !.previousSeconds = 0]))

\* C1: after every drawClockFace (normal tick or time/date menu change) the ring
\* built up incrementally equals the ring a full redraw of the current
\* hoursHand, minutes, seconds and appearance onto a dark ring produces.
C1_IncrementalEqualsFullRedraw == drew => ring = FullRedraw(before)

\* LED p of ring r is off or shows an element that occupies it now; if a hand
\* occupies it, it is lit in the color of an occupant
Rightful(t, r, p) ==
    LET occ == {LowNibble(g.byte) : g \in Covering(t, r, p)}
        mk  == IF MarkerOn(t, r, p) THEN {LowNibble(t.hoursMarkerColor)} ELSE {}
    IN ring[r][p] \in occ \cup mk \cup (IF occ = {} THEN {COLOR_BLANK} ELSE {})

\* C2: after every drawClockFace on a lit ring, for each hand with non-blank color
\* that moved from p to q # p, every LED at p the hand had lit and has left is off
\* or shows a marker or hand that occupies p now, and is lit in an owner's color
\* if another hand still owns it.
C2_NoStaleColor ==
    (drew /\ ~before.dark) =>
        \A h \in HandsOf(before) : \A r \in RingBits :
            (/\ h.value # h.previous
             /\ CoversAt(before, h, h.previous, r, h.previous)
             /\ ~CoversAt(before, h, h.value, r, h.previous))
            => Rightful(before, r, h.previous)

\* C3: within one drawClockFace no LED (ring, position) is written by more than
\* one ledWrite command of the clear, draw and marker phases.
C3_EachLedWrittenOnce ==
    drew => \A i \in 1..Len(cmds) : \A j \in (i + 1)..Len(cmds) :
                (cmds[i][1] = "W" /\ cmds[j][1] = "W" /\ cmds[i][3] = cmds[j][3])
                => MaskAnd(cmds[i][2], cmds[j][2]) = RING_NONE

\* LED p of the own ring of trace hand h is lit in the trace's color although
\* neither a marker nor another hand of that color is there
TraceStale(t, h, p) ==
    /\ ring[h.own][p] = LowNibble(h.byte)
    /\ ~(MarkerOn(t, h.own, p) /\ LowNibble(t.hoursMarkerColor) = LowNibble(h.byte))
    /\ ~\E g \in Covering(t, h.own, p) : g # h /\ LowNibble(g.byte) = LowNibble(h.byte)

\* C4: a Trace hand with non-blank color that moved forward leaves no position
\* beyond its current value lit by the trace; when its value changed to 0 the
\* whole ring of the hand was switched off and no position 1..59 is lit by it.
C4_TraceLeavesNothingBehind ==
    drew => \A h \in HandsOf(before) :
        (Visible(h) /\ StyleOf(h.byte) = "Trace" /\ h.value # h.previous) =>
            /\ h.value > h.previous =>
                   \A p \in (h.value + 1)..(RingSize - 1) : ~TraceStale(before, h, p)
            /\ h.value = 0 =>
                   /\ \E i \in 1..Len(cmds) : cmds[i] = ledWriteAllInRingOff(h.own)
                   /\ \A p \in 1..(RingSize - 1) : ~TraceStale(before, h, p)

\* a Trace hand on a lit ring wrapped to 0 (and another moved forward)
C4_Witness ==
    /\ drew /\ ~before.dark
    /\ \E h \in HandsOf(before) :
           Visible(h) /\ StyleOf(h.byte) = "Trace" /\ h.value = 0 /\ h.previous = RingSize - 1
    /\ \E h \in HandsOf(before) :
           Visible(h) /\ StyleOf(h.byte) = "Trace" /\ h.value > h.previous /\ h.previous > 0

\* C5: after every drawClockFace, an LED covered by two or more hands with
\* non-blank color shows the color of the one drawn last (seconds over hours
\* over minutes).
C5_LaterHandWins ==
    drew => \A r \in RingBits : \A p \in Positions :
        LET cov == Covering(before, r, p)
        IN Cardinality(cov) >= 2 =>
               ring[r][p] = LowNibble((CHOOSE h \in cov : \A g \in cov : g.rank <= h.rank).byte)

\* C6: the first drawClockFace after resetPreviousValues on a dark ring writes
\* every hand with non-blank color at its current position, also when that is
\* position 0, and a Trace at every position from 1 up to its current value.
C6_ForcedRedrawIsFull ==
    (/\ drew /\ before.dark
     /\ before.previousHoursHand = 0 /\ before.previousMinutes = 0 /\ before.previousSeconds = 0)
    => \A h \in HandsOf(before) : \A r \in RingBits : \A p \in Positions :
           (CoversAt(before, h, h.value, r, p) /\ (p = h.value \/ p >= 1)) =>
               \E i \in 1..Len(cmds) :
                   /\ cmds[i][1] = "W" /\ RingIn(r, cmds[i][2])
                   /\ cmds[i][3] = p /\ cmds[i][4] = LowNibble(h.byte)

(***************************************************************************)
(* Persistence                                                             *)
(***************************************************************************)
AppBytes == <<hoursMarkerColor, hoursColor, minutesColor, secondsColor>>

\* the four bytes stored for the selected face
StoredBytes ==
    [j \in 1..4 |-> eeprom[EEPROM_CLOCK_FACE_SETTINGS + DEFAULT_CLOCK_FACE_LENGTH * clockFace + j - 1]]

\* the offsets of the record of the selected face, in ascending order
RecordOffsets ==
    [j \in 1..4 |-> EEPROM_CLOCK_FACE_SETTINGS + DEFAULT_CLOCK_FACE_LENGTH * clockFace + j - 1]

\* C7: the styling menu starts a session with the changed flag cleared and sets
\* it exactly on a Dec/Inc press; leaving the menu without a Dec/Inc press writes
\* nothing to the EEPROM, and leaving it after one writes the four appearance
\* bytes to offsets 10 + 10*clockFace + 0..3, once each, and nothing else.
C7_StylingCommitWritesOneRecord ==
    [][/\ (pc # "styling" /\ pc' = "styling") => settingsChangedFlag' = 0
       /\ (pc = "styling" /\ pc' = "styling") =>
              settingsChangedFlag' = (IF keys' # keys THEN 1 ELSE settingsChangedFlag)
       /\ (pc = "styling" /\ pc' = "loop") =>
              /\ settingsChangedFlag' = settingsChangedFlag /\ clockFace' = clockFace
              /\ IF settingsChangedFlag = 0
                 THEN written' = <<>> /\ eeprom' = eeprom
                 ELSE /\ written' = RecordOffsets
                      /\ \A o \in DOMAIN eeprom :
                             eeprom'[o] = IF \E j \in 1..4 : RecordOffsets[j] = o
                                          THEN AppBytes'[CHOOSE j \in 1..4 : RecordOffsets[j] = o]
                                          ELSE eeprom[o]]_vars

\* a styling session on a face other than 0 ended after a Dec/Inc press and
\* changed the stored record
C7_Witness ==
    /\ lastOp = "userSetFaceColorAndStyle.exit" /\ settingsChangedFlag = 1
    /\ clockFace # 0 /\ written = RecordOffsets /\ StoredBytes = AppBytes

\* C8: the contents of the EEPROM change, and EEPROM writes happen, only in the
\* step that leaves the styling or the settings menu with the changed flag set
\* and in a completed factory reset: never in a normal tick, a face selection,
\* the mode selection, an edit or the commit of the time/date menu.
C8_WritesOnlyAtCommitOrReset ==
    [][(eeprom' # eeprom \/ written' # <<>>) =>
           \/ pc = "styling" /\ pc' = "loop" /\ settingsChangedFlag' # 0
           \/ pc = "settings" /\ pc' = "loop" /\ settingsChangedFlag' # 0
           \/ pc = "loop" /\ lastOp' = "userResetFactoryDefaults.reset"]_vars

\* the time/date menu committed a change and wrote nothing
C8_Witness ==
    /\ lastOp = "userSetTimeAndDate.exit" /\ settingsChangedFlag = 1 /\ written = <<>>
    /\ rtc # ClockAt(10, 10, 23)

\* C9: for a face index below 10, loading the face (at boot or by selection)
\* yields the factory record of that index if the four stored bytes are all 0,
\* and exactly the four stored bytes if any of them is not 0.
C9_LoadYieldsStoredOrFactoryRecord ==
    (lastOp \in {"setup", "userSelectedStyle"} /\ clockFace < DEFAULT_FACTORY_CLOCK_FACES) =>
        AppBytes = IF StoredBytes = <<0, 0, 0, 0>>
                   THEN DEFAULT_FACTORY_COLORS[clockFace + 1]
                   ELSE StoredBytes

\* a face whose record has zero bytes and one non-zero byte was selected by button
C9_Witness ==
    /\ lastOp = "userSelectedStyle"
    /\ StoredBytes # <<0, 0, 0, 0>> /\ \E j \in 1..4 : StoredBytes[j] = 0
    /\ AppBytes = StoredBytes

OrangeTwelveRecord ==
    <<COLOR_ORANGE + MARKER_HOUR_TWELTH, COLOR_BLANK + COLOR_DOT,
      COLOR_GREEN + COLOR_TRACE, COLOR_BLUE + COLOR_TRACE>>

\* C10 as stated: loading face 3 from an all-zero record substitutes
\* {ORANGE|TWELTH, BLANK|DOT, GREEN|TRACE, BLUE|TRACE}.
C10_Face3IsOrangeTwelve ==
    (lastOp \in {"setup", "userSelectedStyle"} /\ clockFace = 3 /\ StoredBytes = <<0, 0, 0, 0>>) =>
        AppBytes = OrangeTwelveRecord

\* C10 amended: it is face 4 whose all-zero record is replaced by
\* {ORANGE|TWELTH, BLANK|DOT, GREEN|TRACE, BLUE|TRACE}; face 3 gets
\* {RED|QUARTERS, BLANK|DOT, BLANK|DOT, BLUE|TRACE}.
C10_Face4IsOrangeTwelve ==
    (lastOp \in {"setup", "userSelectedStyle"} /\ StoredBytes = <<0, 0, 0, 0>>) =>
        /\ clockFace = 4 => AppBytes = OrangeTwelveRecord
        /\ clockFace = 3 => AppBytes = <<COLOR_RED + MARKER_HOUR_QUARTERS, COLOR_BLANK + COLOR_DOT,
                                         COLOR_BLANK + COLOR_DOT, COLOR_BLUE + COLOR_TRACE>>

\* face 4 was selected by button with nothing stored for it
C10_Witness ==
    /\ lastOp = "userSelectedStyle" /\ clockFace = 4
    /\ StoredBytes = <<0, 0, 0, 0>> /\ AppBytes = OrangeTwelveRecord

(***************************************************************************)
(* The end-to-end scenario of the orange twelve-only face                  *)
(***************************************************************************)
\* the <<ring mask, position>> pairs of the ledWrite commands of the last
\* draw that carry color
WritesIn(color) ==
    {<<cmds[i][2], cmds[i][3]>> : i \in {k \in 1..Len(cmds) : cmds[k][1] = "W" /\ cmds[k][4] = color}}

\* a forced redraw of 10:10:23 with the orange twelve-only appearance
OrangeTwelveForcedRedraw ==
    /\ drew /\ before.dark
    /\ before.previousHoursHand = 0 /\ before.previousMinutes = 0 /\ before.previousSeconds = 0
    /\ AppBytes = OrangeTwelveRecord
    /\ hours = 10 /\ minutes = 10 /\ seconds = 23

\* C11: with appearance {ORANGE|TWELTH, BLANK|DOT, GREEN|TRACE, BLUE|TRACE} a
\* forced redraw at 10:10:23 writes blue on the seconds ring at positions 1..23
\* and not at 0, green only as one dot at minutes-ring position 10, and orange
\* only at position 0.
C11_OrangeTwelveScenario ==
    OrangeTwelveForcedRedraw =>
        /\ WritesIn(COLOR_BLUE) = {<<RING_SECONDS, p>> : p \in 1..23}
        /\ WritesIn(COLOR_GREEN) = {<<RING_MINUTES, 10>>}
        /\ {w[2] : w \in WritesIn(COLOR_ORANGE)} = {0}

(***************************************************************************)
(* Settings bytes                                                          *)
(***************************************************************************)
\* C12: whatever byte is stored at offset 0, the active face index is below 10
\* after the load and in every reachable state, so that every face-record
\* access stays inside the factory table and the stored records.
C12_FaceIndexInRange == clockFace \in 0..(DEFAULT_FACTORY_CLOCK_FACES - 1)

\* C13: a stored alternation period of 0 is loaded as 5, and the alternation
\* period is non-zero in every reachable state.
C13_PeriodNeverZero ==
    /\ ledSegmentsToggleSeconds # 0
    /\ (lastOp = "setup" /\ eeprom[EEPROM_ALTERNATE_COUNTER] = 0) => ledSegmentsToggleSeconds = 5

\* booted with a stored period of 0 and passed through loop() with period 5
C13_Witness ==
    /\ pc = "loop" /\ lastOp = "normalMode"
    /\ eeprom[EEPROM_ALTERNATE_COUNTER] = 0 /\ ledSegmentsToggleSeconds = 5

(***************************************************************************)
(* The time/date menu                                                      *)
(***************************************************************************)
\* the field the time/date menu edits at position p
TimeDateField(p) ==
    IF p = SET_POSITION_HOURS THEN hours
    ELSE IF p = SET_POSITION_MINUTES THEN minutes
    ELSE IF p = SET_POSITION_SECONDS THEN seconds
    ELSE IF p = SET_POSITION_YEAR THEN years
    ELSE IF p = SET_POSITION_MONTH THEN months
    ELSE dayOfMonth

\* hours, minutes, seconds, year and month
WrappingFields == SET_POSITION_HOURS..SET_POSITION_MONTH

FieldInRange(p) == TimeDateField(p) \in valueTimeDateMin[p]..valueTimeDateMax[p]

\* C14: in the time/date menu, on hours, minutes, seconds, year and month, Dec
\* at the minimum gives the maximum and otherwise one less, Inc at the maximum
\* gives the minimum and otherwise one more; fields that are in range stay in
\* range.
C14_TimeDateFieldsWrap ==
    [][(pc = "timeDate" /\ \A q \in WrappingFields : FieldInRange(q)) =>
           /\ \A q \in WrappingFields : FieldInRange(q)'
           /\ \A p \in WrappingFields :
                  (position = p /\ lastOp' = "userSetTimeAndDate.button1") =>
                      TimeDateField(p)' = IF TimeDateField(p) = valueTimeDateMin[p]
                                          THEN valueTimeDateMax[p] ELSE TimeDateField(p) - 1
           /\ \A p \in WrappingFields :
                  (position = p /\ lastOp' = "userSetTimeAndDate.button3") =>
                      TimeDateField(p)' = IF TimeDateField(p) = valueTimeDateMax[p]
                                          THEN valueTimeDateMin[p] ELSE TimeDateField(p) + 1]_vars

\* hours were decremented below 0 and read 23
C14_Witness ==
    /\ lastOp = "userSetTimeAndDate.button1" /\ position = SET_POSITION_HOURS
    /\ hours = 23 /\ minutes = 0 /\ seconds = 0

\* the length of month m of year y, leap years being those divisible by 4
DaysInMonth(m, y) ==
    IF m = 2 THEN (IF y % 4 = 0 THEN 29 ELSE 28)
    ELSE <<31, 28, 31, 30, 31, 30, 31, 31, 30, 31, 30, 31>>[m]

\* what getDaysMaxBasedOnMonthAndLeapYear returns when the globals months and
\* years hold m and y
DaysMaxAt(m, y) ==
    getDaysMaxBasedOnMonthAndLeapYear([months |-> m, years |-> y, dayOfMonth |-> dayOfMonth])

\* C15: getDaysMaxBasedOnMonthAndLeapYear returns, for every month 1..12 and
\* year 0..99, 30 for April, June, September and November, 29 for February of
\* a year divisible by 4 and 28 of any other year, and 31 otherwise.
C15_DaysMaxIsMonthLength ==
    /\ \A m \in 1..12 : \A y \in 0..99 : DaysMaxAt(m, y) = DaysInMonth(m, y)
    /\ DaysMaxAt(2, 24) = 29
    /\ DaysMaxAt(2, 23) = 28
    /\ DaysMaxAt(4, 24) = 30

\* the day was decremented below 1 in February of year 24 and read 29
C15_Witness ==
    /\ lastOp = "userSetTimeAndDate.button1" /\ position = SET_POSITION_DAY
    /\ months = 2 /\ years = 24 /\ dayOfMonth = 29

ValidDate ==
    /\ months \in 1..12 /\ years \in 0..99
    /\ dayOfMonth >= 1 /\ dayOfMonth <= DaysInMonth(months, years)

\* the date the time source holds is a calendar date
ValidRtcDate ==
    /\ bcdToDec(rtc.months) \in 1..12 /\ bcdToDec(rtc.years) \in 0..99
    /\ bcdToDec(rtc.dayOfMonth) >= 1
    /\ bcdToDec(rtc.dayOfMonth) <= DaysInMonth(bcdToDec(rtc.months), bcdToDec(rtc.years))

\* C16: in the time/date menu a valid date stays a valid date under every
\* Dec, Inc and Confirm (the day is re-clamped when month or year changes), and
\* the date written to the time source at commit is a valid calendar date.
C16_DayStaysValid ==
    [][(pc = "timeDate" /\ ValidDate) =>
           /\ ValidDate'
           /\ rtc' # rtc => ValidRtcDate']_vars

(***************************************************************************)
(* The settings menu                                                       *)
(***************************************************************************)
\* C17: in the settings menu, on the face-index field, Inc at 9 gives 0, Dec
\* at 0 gives 9, and otherwise Inc and Dec change the index by exactly 1.
C17_FaceIndexWraps ==
    [][(pc = "settings" /\ position = SET_POSITION_CLOCK_FACE
        /\ clockFace \in 0..(DEFAULT_FACTORY_CLOCK_FACES - 1)) =>
           /\ lastOp' = "userSettings.button3" =>
                  clockFace' = (clockFace + 1) % DEFAULT_FACTORY_CLOCK_FACES
           /\ lastOp' = "userSettings.button1" =>
                  clockFace' = (clockFace + DEFAULT_FACTORY_CLOCK_FACES - 1) % DEFAULT_FACTORY_CLOCK_FACES]_vars

\* the place of period v in the table {1, 2, 5, 10, 15, 30, 60}
AltIndex(v) == CHOOSE i \in 1..Len(valueAltTimes) : valueAltTimes[i] = v

\* C18: in the settings menu, on the alternation period, Inc moves to the next
\* entry of {1, 2, 5, 10, 15, 30, 60} and from 60 to 1, Dec moves to the
\* previous entry and from 1 to 60, and the opposite button leads back to the
\* value the press started from.
C18_PeriodStepsThroughTable ==
    [][(/\ pc = "settings" /\ position = SET_POSITION_ALT_TIMER
        /\ \E i \in 1..Len(valueAltTimes) : valueAltTimes[i] = ledSegmentsToggleSeconds) =>
           /\ lastOp' = "userSettings.button3" =>
                  /\ ledSegmentsToggleSeconds' =
                         valueAltTimes[(AltIndex(ledSegmentsToggleSeconds) % Len(valueAltTimes)) + 1]
                  /\ findPreviousAltTime(ledSegmentsToggleSeconds') = ledSegmentsToggleSeconds
           /\ lastOp' = "userSettings.button1" =>
                  /\ ledSegmentsToggleSeconds' =
                         valueAltTimes[((AltIndex(ledSegmentsToggleSeconds) + Len(valueAltTimes) - 2)
                                            % Len(valueAltTimes)) + 1]
                  /\ findNextAltTime(ledSegmentsToggleSeconds') = ledSegmentsToggleSeconds]_vars

\* from the stored period 60, Inc gave 1 and Dec led back to 60
C18_Witness ==
    /\ pc = "settings" /\ position = SET_POSITION_ALT_TIMER
    /\ lastOp = "userSettings.button1" /\ keys + 2 = SettingsKeys
    /\ eeprom[EEPROM_ALTERNATE_COUNTER] = 60 /\ ledSegmentsToggleSeconds = 60

(***************************************************************************)
(* The styling menu                                                        *)
(***************************************************************************)
StylingFields ==
    {SET_POSITION_HOURS, SET_POSITION_MINUTES, SET_POSITION_SECONDS, SET_POSITION_MARKERS}

\* the style (density) nibble and the color nibble of the field at position p
StyleAt(p) == getOptionsByPosition(App, p)
ColorAt(p) == getColorByPosition(App, p)

\* Hands -> Trace -> Dot -> Hands, TwelveOnly -> EveryQuarter -> Every5 -> TwelveOnly
StyleCycle(p) ==
    IF p = SET_POSITION_MARKERS
    THEN <<MARKER_HOUR_TWELTH, MARKER_HOUR_QUARTERS, MARKER_HOUR_EVERY>>
    ELSE <<COLOR_HANDS, COLOR_TRACE, COLOR_DOT>>

\* C19: in the styling menu button 1 moves the style of a hand field along
\* Hands -> Trace -> Dot -> Hands and the density of the marker field along
\* TwelveOnly -> EveryQuarter -> Every5 -> TwelveOnly; after a press the style
\* nibble is one of the three flags whatever it was, and three presses lead
\* back to the style they started from.
C19_StyleCycles ==
    [][\A p \in StylingFields :
           (pc = "styling" /\ position = p /\ lastOp' = "userSetFaceColorAndStyle.button1") =>
               /\ \E i \in 1..3 : StyleAt(p)' = StyleCycle(p)[i]
               /\ \A i \in 1..3 : StyleAt(p) = StyleCycle(p)[i] =>
                      /\ StyleAt(p)' = StyleCycle(p)[(i % 3) + 1]
                      /\ LET a1 == App'
                             a2 == setOptionsByPosition(a1, p, nextStyle(a1, p))
                             a3 == setOptionsByPosition(a2, p, nextStyle(a2, p))
                         IN getOptionsByPosition(a3, p) = StyleAt(p)]_vars

\* three presses of button 1 on the hours field led back to the stored white
\* Hands record
C19_Witness ==
    /\ pc = "styling" /\ position = SET_POSITION_HOURS
    /\ lastOp = "userSetFaceColorAndStyle.button1" /\ keys + 3 = StylingKeys
    /\ hoursColor = COLOR_WHITE + COLOR_HANDS /\ AppBytes = StoredBytes

\* C20: in the styling menu button 3 sets the color of the selected field to
\* (color + 1) mod 8 for every color 0..7: 7 goes to 0, and the result is a
\* color 0..7.
C20_ColorCycles ==
    [][\A p \in StylingFields :
           (/\ pc = "styling" /\ position = p
            /\ lastOp' = "userSetFaceColorAndStyle.button3"
            /\ ColorAt(p) \in COLORS_START..COLORS_END) =>
               /\ ColorAt(p)' = (ColorAt(p) + 1) % (COLORS_END + 1)
               /\ ColorAt(p)' \in COLORS_START..COLORS_END]_vars

\* button 3 on the white hours field switched it off
C20_Witness ==
    /\ pc = "styling" /\ position = SET_POSITION_HOURS
    /\ lastOp = "userSetFaceColorAndStyle.button3" /\ keys + 1 = StylingKeys
    /\ StoredBytes[2] = COLOR_WHITE + COLOR_HANDS /\ hoursColor = COLOR_BLANK + COLOR_HANDS

(***************************************************************************)
(* Style and color nibbles                                                 *)
(***************************************************************************)
\* the appearance byte of the field at position p in the record a
ByteAt(a, p) ==
    IF p = SET_POSITION_HOURS THEN a.hoursColor
    ELSE IF p = SET_POSITION_MINUTES THEN a.minutesColor
    ELSE IF p = SET_POSITION_SECONDS THEN a.secondsColor
    ELSE a.hoursMarkerColor

HandStyles == {COLOR_HANDS, COLOR_DOT, COLOR_TRACE}

\* C21: on the appearance bytes of every state of a styling session,
\* setOptionsByPosition changes only the high nibble and setColorByPosition
\* only the low nibble of a field's byte, neither changes the byte of another
\* field, and on the selected field, for every style of {Hands, Dot, Trace}
\* and every color 0..7, reading back after setting both returns the same pair
\* in either order of setting.
C21_NibblesAreIndependent ==
    /\ \A p \in StylingFields :
           /\ \A s \in HandStyles :
                  LET a1 == setOptionsByPosition(App, p, s)
                  IN /\ HighNibble(ByteAt(a1, p)) = s
                     /\ LowNibble(ByteAt(a1, p)) = LowNibble(ByteAt(App, p))
                     /\ \A q \in StylingFields \ {p} : ByteAt(a1, q) = ByteAt(App, q)
           /\ \A c \in COLORS_START..COLORS_END :
                  LET a2 == setColorByPosition(App, p, c)
                  IN /\ LowNibble(ByteAt(a2, p)) = c
                     /\ HighNibble(ByteAt(a2, p)) = HighNibble(ByteAt(App, p))
                     /\ \A q \in StylingFields \ {p} : ByteAt(a2, q) = ByteAt(App, q)
    /\ \A p \in StylingFields \cap {position} :
           \A s \in HandStyles : \A c \in COLORS_START..COLORS_END :
               LET a3 == setColorByPosition(setOptionsByPosition(App, p, s), p, c)
                   a4 == setOptionsByPosition(setColorByPosition(App, p, c), p, s)
               IN /\ getOptionsByPosition(a3, p) = s /\ getColorByPosition(a3, p) = c
                  /\ a4 = a3 /\ ByteAt(a3, p) = s + c

\* button 1 on the white Hands hours field made it a white Trace
C21_Witness ==
    /\ pc = "styling" /\ position = SET_POSITION_HOURS
    /\ lastOp = "userSetFaceColorAndStyle.button1" /\ keys + 1 = StylingKeys
    /\ StoredBytes[2] = COLOR_WHITE + COLOR_HANDS /\ hoursColor = COLOR_WHITE + COLOR_TRACE

(***************************************************************************)
(* Hands that are switched off                                             *)
(***************************************************************************)
\* the draw context t with the hand of rank k taken off the ring: 255 is no
\* position, a value no hand, marker or loop index ever equals
HandAbsent(t, k) ==
    IF k = 1 THEN [t EXCEPT !.minutes = 255, !.previousMinutes = 255]
    ELSE IF k = 2 THEN [t EXCEPT !.hoursHand = 255, !.previousHoursHand = 255]
    ELSE [t EXCEPT !.seconds = 255, !.previousSeconds = 255]

\* C22: a hand whose color is 0 leaves no trace in the commands of a draw,
\* whatever its style: the commands are those the renderer would send if the
\* hand stood nowhere on the ring (nothing cleared or drawn for it, no marker
\* held back by it, no other hand redrawn because of it).
C22_BlankHandIsNotDrawn ==
    drew => \A h \in HandsOf(before) :
                LowNibble(h.byte) = COLOR_BLANK =>
                    cmds = drawClockFaceCmds(HandAbsent(before, h.rank))

(***************************************************************************)
(* The menus and their buttons                                             *)
(***************************************************************************)
Menus == {"timeDate", "styling", "settings"}

\* one iteration of the loop of the menu that is running, with the chord k
MenuIteration(k) ==
    IF pc = "timeDate" THEN userSetTimeAndDate(k, FALSE)
    ELSE IF pc = "styling" THEN userSetFaceColorAndStyle(k, FALSE)
    ELSE userSettings(k, FALSE)

\* the values the three menus edit
FieldValues ==
    <<hours, minutes, seconds, years, months, dayOfMonth,
      hoursMarkerColor, hoursColor, minutesColor, secondsColor,
      clockFace, ledSegmentsSettings, ledSegmentsToggleSeconds>>

\* C23: in the three menus an iteration that reads no button, 1+2, 1+3, 2+3 or
\* 1+2+3 leaves the field values, the field index and the changed flag as
\* they are and does not end the session.
C23_OtherChordsAreIgnored ==
    [][\A k \in OtherChords :
           (pc \in Menus /\ MenuIteration(k)) =>
               /\ FieldValues' = FieldValues
               /\ position' = position
               /\ settingsChangedFlag' = settingsChangedFlag
               /\ pc' = pc]_vars

\* buttons 1 and 3 together on the edited minutes field of the time/date menu
C23_Witness ==
    /\ pc = "timeDate" /\ position = SET_POSITION_MINUTES
    /\ lastOp = "chord" /\ settingsChangedFlag = 1 /\ keys + 1 = MenuKeys

\* the fields of a menu in the order button 2 visits them
FieldOrder(menu) ==
    IF menu = "timeDate"
    THEN <<SET_POSITION_HOURS, SET_POSITION_MINUTES, SET_POSITION_SECONDS,
           SET_POSITION_YEAR, SET_POSITION_MONTH, SET_POSITION_DAY>>
    ELSE IF menu = "styling"
    THEN <<SET_POSITION_HOURS, SET_POSITION_MINUTES, SET_POSITION_SECONDS, SET_POSITION_MARKERS>>
    ELSE <<SET_POSITION_CLOCK_FACE, SET_POSITION_TIME_DATE, SET_POSITION_ALT_TIMER,
           SET_POSITION_FLASH_COLON>>

FieldIndex(menu, p) == CHOOSE i \in 1..Len(FieldOrder(menu)) : FieldOrder(menu)[i] = p

ConfirmOrder ==
    /\ (pc \notin Menus /\ pc' \in Menus) => position' = FieldOrder(pc')[1]
    /\ pc \in Menus => \E i \in 1..Len(FieldOrder(pc)) : FieldOrder(pc)[i] = position
    /\ (pc \in Menus /\ MenuIteration(KEY_PRESSED_2)) => position' # position
    /\ (pc \in Menus /\ position' # position) =>
           IF FieldIndex(pc, position) < Len(FieldOrder(pc))
           THEN pc' = pc /\ position' = FieldOrder(pc)[FieldIndex(pc, position) + 1]
           ELSE pc' = "loop"
    /\ (pc \in Menus /\ pc' # pc) =>
           /\ MenuIteration(KEY_PRESSED_2)
           /\ position = FieldOrder(pc)[Len(FieldOrder(pc))]

\* C24: every menu starts at its first field; button 2 moves to the next field
\* in the order hours, minutes, seconds, year, month, day (time/date), hours,
\* minutes, seconds, markers (styling), face, display mode, alternation
\* period, colon mode (settings); a session ends at button 2 on the last field
\* and in no other step, however many iterations pass; and when the user goes
\* on pressing button 2 every session ends.
C24_ConfirmWalksTheFields ==
    /\ [][ConfirmOrder]_vars
    /\ (pc \in Menus) ~> (pc = "loop")

\* button 2 on the colon mode ended a settings session without a change
C24_Witness ==
    /\ pc = "loop" /\ lastOp = "userSettings.exit"
    /\ position = SET_POSITION_NONE /\ settingsChangedFlag = 0

\* the value of the field at position p of a menu
FieldAt(menu, p) ==
    IF menu = "timeDate" THEN TimeDateField(p)
    ELSE IF menu = "styling" THEN ByteAt(App, p)
    ELSE getSettingByPosition(Settings, p)

FieldsOf(menu) == {FieldOrder(menu)[i] : i \in 1..Len(FieldOrder(menu))}

EditLabels ==
    {"userSetTimeAndDate.button1", "userSetTimeAndDate.button3",
     "userSetFaceColorAndStyle.button1", "userSetFaceColorAndStyle.button3",
     "userSettings.button1", "userSettings.button3"}

\* C25: in every menu a press of button 1 or 3 changes no field but the
\* selected one and leaves the changed flag set; button 2 between two fields
\* changes no field value and not the flag; the flag is 0 when a session
\* starts and, once set, stays set for the rest of the session.
C25_EditsTouchTheSelectedFieldOnly ==
    [][/\ (pc \in Menus /\ lastOp' \in EditLabels) =>
              /\ \A q \in FieldsOf(pc) \ {position} : FieldAt(pc, q)' = FieldAt(pc, q)
              /\ settingsChangedFlag' = 1
       /\ (pc \in Menus /\ MenuIteration(KEY_PRESSED_2) /\ pc' = pc) =>
              /\ \A q \in FieldsOf(pc) : FieldAt(pc, q)' = FieldAt(pc, q)
              /\ settingsChangedFlag' = settingsChangedFlag
       /\ (pc \notin Menus /\ pc' \in Menus) => settingsChangedFlag' = 0
       /\ (pc \in Menus /\ settingsChangedFlag # 0) => settingsChangedFlag' # 0]_vars

\* the previous values are those resetPreviousValues leaves
PreviousValuesReset(t) ==
    t.previousHoursHand = 0 /\ t.previousMinutes = 0 /\ t.previousSeconds = 0

\* C26: the step that ends a menu session, changed or not, returns into loop()
\* and normalMode with the ring dark, the previous values reset and the digit
\* display cleared: normalMode either draws the face from that state (all its
\* commands fall on a dark ring, its context holds the reset values, the
\* digits are those of drawNormalLedSegments) or, when the second read is 0,
\* leaves ring, previous values and digits as the menu left them.  A menu is
\* entered from the mode selection only, so it runs once per selection.
C26_SessionsEndInNormalMode ==
    [][/\ (pc \in Menus /\ pc' # pc) =>
              /\ pc' = "loop"
              /\ IF drew'
                 THEN /\ before'.dark /\ PreviousValuesReset(before')
                      /\ ring' = ApplyCmds(DarkRing, cmds')
                      /\ segments' = drawNormalLedSegments(
                                          [Cur' EXCEPT !.ledSegmentsDisplay = ledSegmentsDisplay],
                                          Settings').segments
                 ELSE /\ ring' = DarkRing
                      /\ previousHoursHand' = 0 /\ previousHours' = 0
                      /\ previousMinutes' = 0 /\ previousSeconds' = 0
                      /\ segments' = Shown("clear", 0)
       /\ (pc \notin Menus /\ pc' \in Menus) => pc = "selectMode"]_vars

\* a changed time was committed on the full minute: the ring stays dark
C26_Witness ==
    /\ pc = "loop" /\ lastOp = "userSetTimeAndDate.exit" /\ settingsChangedFlag = 1
    /\ ~drew /\ ring = DarkRing /\ segments.shows = "clear" /\ previousMinutes = 0 /\ minutes # 0

(***************************************************************************)
(* What the menus commit                                                   *)
(***************************************************************************)
\* C27: the step that ends a time/date session writes the time source with
\* the hours, minutes, seconds, day, month and year the menu holds at that
\* moment when the changed flag is set, and leaves the time source alone when
\* it is not.
C27_CommitWritesTheEditedFields ==
    [][(pc = "timeDate" /\ pc' # pc) =>
           IF settingsChangedFlag # 0
           THEN rtc' = setDateDs1307(seconds, minutes, hours, dayOfMonth, months, years)
           ELSE rtc' = rtc]_vars

(***************************************************************************)
(* The factory reset                                                       *)
(***************************************************************************)
HeldThroughout(samples) == \A i \in 1..Len(samples) : samples[i] = KEY_PRESSED_1_2

\* C28: the factory reset is performed exactly when every key sample of the
\* hold animation, the last one included, reads the chord 1+2; when one sample
\* reads something else no byte of the storage is written and face index,
\* settings and appearance in memory stay as they are.
C28_ResetNeedsTheWholeHold ==
    [][\A held \in BOOLEAN :
           (lastOp' = (IF held THEN "userResetFactoryDefaults.reset"
                       ELSE "userResetFactoryDefaults.abort")) =>
               /\ \A samples \in HoldSamples :
                      StillPressed(samples) = held => HeldThroughout(samples) = held
               /\ \E samples \in HoldSamples : StillPressed(samples) = held
               /\ IF held
                  THEN written' = FactoryOffsets
                  ELSE /\ written' = <<>> /\ eeprom' = eeprom
                       /\ Settings' = Settings /\ AppBytes' = AppBytes]_vars

\* the chord was let go: face 9 and the stored period 7 are still in memory
C28_Witness ==
    /\ lastOp = "userResetFactoryDefaults.abort" /\ written = <<>>
    /\ clockFace = DEFAULT_FACTORY_CLOCK_FACES - 1 /\ ledSegmentsToggleSeconds = 7
    /\ eeprom[EEPROM_ALTERNATE_COUNTER] = 7

(***************************************************************************)
(* The domains of the menus                                                *)
(***************************************************************************)
TimeDateFields == <<hours, minutes, seconds, years, months, dayOfMonth>>

\* a step of the session of a menu: its entry from the mode selection, an
\* iteration of its loop, or its last iteration up to the return into loop()
InSession(menu) == pc = menu \/ pc' = menu

\* C29: a time/date session leaves the appearance bytes and the settings as
\* they are, a styling session the time/date fields and the settings, a
\* settings session the appearance bytes and the time/date fields (until
\* normalMode reads the time source again after the session), and a step that
\* only renders changes neither appearance nor settings.
C29_MenusKeepToTheirDomain ==
    [][/\ InSession("timeDate") => AppBytes' = AppBytes /\ Settings' = Settings
       /\ InSession("styling") =>
              /\ Settings' = Settings
              /\ pc' = "styling" => TimeDateFields' = TimeDateFields
       /\ InSession("settings") =>
              /\ AppBytes' = AppBytes
              /\ pc' = "settings" => TimeDateFields' = TimeDateFields
       /\ lastOp' \in {"normalMode", "rtc"} => AppBytes' = AppBytes /\ Settings' = Settings]_vars

(***************************************************************************)
(* The settings in memory                                                  *)
(***************************************************************************)
\* C30: after boot, whatever the storage holds and whatever is pressed, the
\* display mode is one of None, Time, Date, TimeAndDate, the colon mode is On
\* or FlashEverySecond and the alternation period is one of 1, 2, 5, 10, 15,
\* 30, 60.
C30_SettingsStayInTheirDomains ==
    /\ HighNibble(ledSegmentsSettings) \in
           {DISPLAY_NONE, DISPLAY_TIME, DISPLAY_DATE, DISPLAY_TIME_AND_DATE}
    /\ LowNibble(ledSegmentsSettings) \in {DISPLAY_COLONS_ON, DISPLAY_COLONS_FLASH_EVERY_SECOND}
    /\ \E i \in 1..Len(valueAltTimes) : valueAltTimes[i] = ledSegmentsToggleSeconds

(***************************************************************************)
(* Ring positions                                                          *)
(***************************************************************************)
\* C31: for every hours in 0..23 and minutes in 0..59 the hours hand is
\* (hours % 12) * 5 + minutes / 12 and lies in 0..59; after every
\* drawClockFace with hours, minutes and seconds in range hoursHand holds that
\* value and every ledWrite of the draw addresses a position in 0..59.
C31_RingPositionsInRange ==
    /\ lastOp = "setup" =>
           \A h \in 0..23 : \A m \in 0..59 :
               /\ HoursHandOf(h, m) = (h % 12) * 5 + m \div 12
               /\ HoursHandOf(h, m) \in Positions
    /\ (drew /\ hours \in 0..23 /\ minutes \in 0..59 /\ seconds \in 0..59) =>
           /\ hoursHand = (hours % 12) * 5 + minutes \div 12
           /\ hoursHand \in Positions
           /\ \A i \in 1..Len(cmds) : cmds[i][1] = "W" => cmds[i][3] \in Positions

\* the hours were stepped down from 0 to 23 and the hand drawn at 55
C31_Witness ==
    /\ drew /\ lastOp = "userSetTimeAndDate.button1"
    /\ hours = 23 /\ minutes = 0 /\ hoursHand = 55
    /\ \E i \in 1..Len(cmds) : cmds[i][1] = "W" /\ cmds[i][3] = 55

(***************************************************************************)
(* The marker phase                                                        *)
(***************************************************************************)
MarkerDensities == {MARKER_HOUR_EVERY, MARKER_HOUR_QUARTERS, MARKER_HOUR_TWELTH}

\* the positions the density of the marker byte stands for
DensityPositions(t) ==
    IF HighNibble(t.hoursMarkerColor) = MARKER_HOUR_EVERY THEN {p \in Positions : p % 5 = 0}
    ELSE IF HighNibble(t.hoursMarkerColor) = MARKER_HOUR_QUARTERS THEN {p \in Positions : p % 15 = 0}
    ELSE {0}

\* the rings of the marker at p: all three at twelve, minutes and seconds at
\* the quarters, seconds elsewhere
MarkerRings(p) ==
    IF p = 0 THEN RingBits
    ELSE IF p % 15 = 0 THEN {RING_MINUTES, RING_SECONDS}
    ELSE {RING_SECONDS}

\* the rings hand h takes from a marker at p
TakenBy(h, p) ==
    IF LowNibble(h.byte) = COLOR_BLANK \/ h.value # p THEN {}
    ELSE IF HighNibble(h.byte) = COLOR_HANDS
    THEN (IF h.own = RING_HOURS THEN {RING_HOURS, RING_MINUTES} ELSE RingBits)
    ELSE IF HighNibble(h.byte) = COLOR_DOT THEN {h.own}
    ELSE IF p > 0 THEN {h.own} ELSE {}

\* the rings left of the marker at p
MarkerLeft(t, p) == MarkerRings(p) \ UNION {TakenBy(h, p) : h \in HandsOf(t)}

\* the ring mask of a set of rings
MaskOf(rs) ==
    (IF RING_SECONDS \in rs THEN RING_SECONDS ELSE 0)
    + (IF RING_MINUTES \in rs THEN RING_MINUTES ELSE 0)
    + (IF RING_HOURS \in rs THEN RING_HOURS ELSE 0)

\* C32: the marker phase of every drawClockFace, for a marker byte with one of
\* the three densities and hands of style Hands, Dot or Trace: with a
\* non-blank marker color it sends one ledWrite in the marker color for each
\* position of the density where a ring of the marker is left, on the rings
\* left (a Hands seconds or minutes hand at the position takes all rings, a
\* Hands hours hand all but the seconds ring, a Dot or a Trace at a position
\* above 0 its own ring), in ascending order and nothing else; with a blank
\* marker color it sends nothing.  The marker phase ends the draw.
C32_MarkersWhereNoHandCovers ==
    (/\ drew
     /\ HighNibble(before.hoursMarkerColor) \in MarkerDensities
     /\ \A h \in HandsOf(before) : HighNibble(h.byte) \in HandStyles) =>
        LET mk == drawMarkers(before)
            at == {p \in DensityPositions(before) : MarkerLeft(before, p) # {}}
        IN /\ Len(mk) <= Len(cmds)
           /\ \A i \in 1..Len(mk) : cmds[Len(cmds) - Len(mk) + i] = mk[i]
           /\ IF LowNibble(before.hoursMarkerColor) = COLOR_BLANK
              THEN mk = <<>>
              ELSE /\ Len(mk) = Cardinality(at)
                   /\ \A i \in 1..Len(mk) : \A j \in 1..Len(mk) : i < j => mk[i][3] < mk[j][3]
                   /\ \A i \in 1..Len(mk) :
                          /\ mk[i][1] = "W" /\ mk[i][3] \in at
                          /\ mk[i][2] = MaskOf(MarkerLeft(before, mk[i][3]))
                          /\ mk[i][4] = LowNibble(before.hoursMarkerColor)

\* factory face 0 at 10:10:23: the Hands hours hand at 50 leaves the marker on
\* the seconds ring, the Hands minutes hand at 10 leaves nothing of the marker
C32_Witness ==
    /\ drew /\ before.hoursMarkerColor = COLOR_BLUE + MARKER_HOUR_EVERY
    /\ before.hoursColor = COLOR_CYAN + COLOR_HANDS /\ before.hoursHand = 50
    /\ before.minutesColor = COLOR_GREEN + COLOR_HANDS /\ before.minutes = 10
    /\ \E i \in 1..Len(cmds) : cmds[i] = ledWrite(RING_SECONDS, 50, COLOR_BLUE)
    /\ \A i \in 1..Len(cmds) : ~(cmds[i][3] = 10 /\ cmds[i][4] = COLOR_BLUE)

(***************************************************************************)
(* Previous values                                                         *)
(***************************************************************************)
\* the previous values are the current ones
PreviousIsCurrent ==
    /\ previousHoursHand = hoursHand /\ previousHours = hours
    /\ previousMinutes = minutes /\ previousSeconds = seconds

\* C33: after every drawClockFace the previous hoursHand, hours, minutes and
\* seconds equal the current ones; a loop iteration in normal mode draws if
\* and only if the seconds it read differ from previousSeconds; and what it
\* compares against are the values of the last drawn tick, so that in normal
\* mode, once normalMode has run, the previous values are the current ones.
C33_PreviousValuesTrackTheLastDraw ==
    /\ drew => PreviousIsCurrent
    /\ (pc = "loop" /\ lastOp \notin {"setup", "rtc"}) =>
           /\ drew => before.seconds # before.previousSeconds
           /\ ~drew => seconds = previousSeconds
           /\ PreviousIsCurrent

SettingsEditLabels == {"userSettings.button1", "userSettings.button3"}

\* C36: in the settings menu a press of button 1 or 3 on the display mode
\* leaves the colon mode (the low nibble of the display byte) as it was, a
\* press on the colon mode leaves the display mode (the high nibble) as it
\* was, and the byte a commit stores at offset 1 is the display byte the
\* session ended with.
C36_DisplayModeAndColonModeAreIndependent ==
    [][/\ (lastOp' \in SettingsEditLabels /\ position = SET_POSITION_TIME_DATE) =>
              LowNibble(ledSegmentsSettings') = LowNibble(ledSegmentsSettings)
       /\ (lastOp' \in SettingsEditLabels /\ position = SET_POSITION_FLASH_COLON) =>
              HighNibble(ledSegmentsSettings') = HighNibble(ledSegmentsSettings)
       /\ (lastOp' = "userSettings.exit" /\ settingsChangedFlag # 0) =>
              /\ ledSegmentsSettings' = ledSegmentsSettings
              /\ eeprom'[EEPROM_DATE_TIME_AND_COLON] = ledSegmentsSettings]_vars

\* C37: whenever the clock is in normal mode or the styling menu has just been
\* entered, the appearance in memory is the one that loading the record of the
\* current face index yields, so that a settings session which changes the
\* face index is followed by the appearance of the new face, and a styling
\* session edits and commits the record of the face it shows.
C37_AppearanceBelongsToTheCurrentFace ==
    (/\ clockFace \in 0..(DEFAULT_FACTORY_CLOCK_FACES - 1)
     /\ \/ pc = "loop"
        \/ pc = "styling" /\ settingsChangedFlag = 0) =>
        App \in loadFaceSettingsOrFactoryDefaults(eeprom, clockFace)

\* row i of DEFAULT_FACTORY_COLORS as an appearance
FactoryFace(i) ==
    MakeApp(DEFAULT_FACTORY_COLORS[i + 1][1], DEFAULT_FACTORY_COLORS[i + 1][2],
            DEFAULT_FACTORY_COLORS[i + 1][3], DEFAULT_FACTORY_COLORS[i + 1][4])

\* C40: when a factory reset has run to completion, whatever was stored and
\* held in memory before, the face index is 0 in storage and in memory, the
\* display byte is TimeAndDate with the colon flashing every second, the
\* alternation period is 5, the appearance in memory is factory face 0, and
\* loading any face 0..9 yields its row of DEFAULT_FACTORY_COLORS.
C40_ResetRestoresTheFactoryState ==
    lastOp = "userResetFactoryDefaults.reset" =>
        /\ eeprom[EEPROM_CLOCK_FACE_NUMBER] = 0 /\ clockFace = 0
        /\ eeprom[EEPROM_DATE_TIME_AND_COLON] = DISPLAY_TIME_AND_DATE + DISPLAY_COLONS_FLASH_EVERY_SECOND
        /\ ledSegmentsSettings = DISPLAY_TIME_AND_DATE + DISPLAY_COLONS_FLASH_EVERY_SECOND
        /\ eeprom[EEPROM_ALTERNATE_COUNTER] = 5 /\ ledSegmentsToggleSeconds = 5
        /\ App = FactoryFace(0)
        /\ \A i \in 0..(DEFAULT_FACTORY_CLOCK_FACES - 1) :
               loadFaceSettingsOrFactoryDefaults(eeprom, i) = {FactoryFace(i)}

\* a reset that replaced a styled record of face 2 by the factory bytes
C40_Witness ==
    /\ lastOp = "userResetFactoryDefaults.reset" /\ pc = "loop"
    /\ written = FactoryOffsets
    /\ eeprom[FaceOffset(2, 1)] = DEFAULT_FACTORY_COLORS[3][2]
    /\ eeprom[FaceOffset(2, 1)] # COLOR_CYAN + COLOR_HANDS
    /\ App = FactoryFace(0)

ButtonIteration ==
    /\ pc \in Menus
    /\ \/ lastOp' \in EditLabels
       \/ position' # position

\* the step is an iteration in which the blink timer fired and no button counted
TimerIteration == pc \in Menus /\ lastOp' = "updateBlinkTimer"

\* the digit display shows the selected field as blanks
FieldBlank == position # SET_POSITION_NONE /\ segments.blank = position

LongPause == ~isButtonPressed /\ isButtonPressed'

\* the iteration read a button or a chord of buttons
ReadSomeKey ==
    \/ lastOp' \in {"userSetTimeAndDate.button1", "userSetTimeAndDate.button3", "chord",
                    "userSetTimeAndDate.exit"}
    \/ position' # position

\* no button was down when the iteration began: the menu was just entered, or
\* the iteration before read no key, or it was a Confirm, which waits until
\* all buttons are released
ReleasedBefore == lastOp = "userSetTimeAndDate"

\* C35: in the time/date menu the long pause is applied exactly once per
\* continuous hold: the first reading of a key after the buttons were released
\* is followed by the long pause, and a reading that continues a hold (a
\* repeat of Dec or Inc) is accepted without it.
C35_LongPauseOncePerHold ==
    [][(pc = "timeDate" /\ lastOp' # "updateBlinkTimer" /\ lastOp # "updateBlinkTimer")
          => (LongPause <=> (ReadSomeKey /\ ReleasedBefore))]_vars


TimeView == segments.shows = "time"

DateView == segments.shows = "date"

====
